---- MODULE Spec2Model ----
(***************************************************************************)
(* A model of the DocFS filesystem core: the path sandbox                  *)
(* (validatePathAccess), the metadata LRU cache (LRUCache), the range      *)
(* reader (readFileContent), the read_files tool handler, the directory    *)
(* walker (listFiles / getDirectoryTree / searchInFiles) and the           *)
(* line-oriented search (searchInFile).                                    *)
(*                                                                         *)
(* Strings are sequences of one-character strings, so that prefix tests,   *)
(* splitting and joining are computed as the code computes them.           *)
(***************************************************************************)
EXTENDS Integers, Sequences, FiniteSets, TLC

VARIABLES
    \* --- PathSandbox: one validatePathAccess call
    pTarget,      \* the targetPath argument
    pRoots,       \* the allowedRoots argument
    pOutcome,     \* Pending, or the call's outcome: Returned(path) or Thrown(msg)
    \* --- LRUCache
    cache,        \* the Map, as the sequence of its entries in insertion order
    maxSize,      \* constructor argument: the capacity
    now,          \* Date.now()
    ret,          \* the last cache call: its arguments, the branch taken, its result
    recency,      \* history: the stored keys, least recently accessed first
    lastSet,      \* history: per key, the time of its last set (-1: never)
    \* --- RangeReader: one readFileContent call
    rContent,     \* the decoded content of the file
    rReadable,    \* whether fs.readFile succeeds
    rStart,       \* the startLine argument (Undefined or Some(n))
    rEnd,         \* the endLine argument (Undefined or Some(n))
    rOutcome,     \* Pending, or Returned(text) or Thrown(msg)
    \* --- read_files: one call of the tool handler
    ctxRoots,     \* context.roots, the configured root directories
    fsFiles,      \* the filesystem: what lies at each path
    rfInput,      \* the input object of the call
    rfOutcome,    \* Pending, Running (suspended at an await), Returned(results) or Thrown(error)
    rfTrace,      \* the path resolutions and filesystem calls made so far, in order
    \* --- DirectoryWalker: listFiles, getDirectoryTree, searchInFiles on one tree
    wkEnv,        \* the filesystem: nodes (fs) and directory entries (dirs)
    wkOpts,       \* the options of the calls
    wkList,       \* Pending, Running, or Returned(listFiles result)
    wkTree,       \* Pending, Running, or the outcome of getDirectoryTree
    wkSearch,     \* Pending, Running, or Returned(searchInFiles result)
    \* --- TextSearchEngine: one searchInFile call
    sContent,     \* the decoded content of the file
    sOpts,        \* query, caseSensitive, wholeWord, contextLines
    sOutcome,     \* Pending, or Returned(the matches pushed)
    \* --- Server: the tools/call handler of one server
    srvDirTreeRan, \* the dirTreeRan flag
    srvCalls,     \* the calls received, in arrival order, with their state
    \* --- Tool handlers: one call of list_files, dir_tree, search_files or read_files
    thTool,       \* the tool called
    thInput,      \* the input object of the call
    thOutcome,    \* Pending, Running, Returned(the data of the text) or Thrown(error)
    thFound,      \* history: what searchInFiles returned to the search_files handler
    \* --- getFileInfo: calls on a filesystem that changes between and during them
    giCall,       \* the last call: its path, its outcome (Running while it awaits), its stat calls
    giLastStat,   \* history: per path, the last successful stat: issued, completed, result
    giOther,      \* when the getFileInfo call of another request, now awaiting fs.stat, was made
    \* --- The ignore file of one root over a sequence of walker calls
    igLog,        \* history: per call, its reads of ignore files and the rules it used
    \* --- Asynchronous calls
    ioLog,        \* of the call in progress: the world each of its segments started in
    envLeft,      \* what may still happen around a call: ticks, cache clears, file
                  \* changes, getFileInfo calls of other requests; and the
                  \* fs.stat such a call awaits
    \* --- The platform
    dirSize       \* which size fs.stat reports for each directory

pathVars == <<pTarget, pRoots, pOutcome>>
cacheVars == <<cache, maxSize, now, ret, recency, lastSet>>
readVars == <<rContent, rReadable, rStart, rEnd, rOutcome>>
toolVars == <<ctxRoots, fsFiles, rfInput, rfOutcome, rfTrace>>
walkVars == <<wkEnv, wkOpts, wkList, wkTree, wkSearch>>
searchVars == <<sContent, sOpts, sOutcome>>
serverVars == <<srvDirTreeRan, srvCalls>>
handlerVars == <<thTool, thInput, thOutcome, thFound>>
infoVars == <<giCall, giLastStat, giOther>>
matcherVars == <<igLog>>
awaitVars == <<ioLog, envLeft>>

vars == <<pTarget, pRoots, pOutcome, cache, maxSize, now, ret, recency, lastSet,
          rContent, rReadable, rStart, rEnd, rOutcome,
          ctxRoots, fsFiles, rfInput, rfOutcome, rfTrace,
          wkEnv, wkOpts, wkList, wkTree, wkSearch, sContent, sOpts, sOutcome,
          srvDirTreeRan, srvCalls, thTool, thInput, thOutcome, thFound,
          giCall, giLastStat, giOther, igLog, ioLog, envLeft, dirSize>>

----------------------------------------------------------------------------
(* Generic helpers on sequences and strings                                *)

Max(a, b) == IF a > b THEN a ELSE b
Min(a, b) == IF a < b THEN a ELSE b

Last(s) == s[Len(s)]
Front(s) == SubSeq(s, 1, Len(s) - 1)

\* All sequences over S of length 0..n
SeqsUpTo(S, n) == UNION {[1..k -> S] : k \in 0..n}

\* String.prototype.startsWith
StartsWith(s, prefix) ==
    /\ Len(prefix) <= Len(s)
    /\ SubSeq(s, 1, Len(prefix)) = prefix

\* String.prototype.split(sep) for a one-character separator: keeps empty pieces
RECURSIVE SplitFrom(_, _, _, _)
SplitFrom(s, sep, i, cur) ==
    IF i > Len(s) THEN <<cur>>
    ELSE IF s[i] = sep THEN <<cur>> \o SplitFrom(s, sep, i + 1, <<>>)
    ELSE SplitFrom(s, sep, i + 1, Append(cur, s[i]))

Split(s, sep) == SplitFrom(s, sep, 1, <<>>)

\* Array.prototype.join(sep)
RECURSIVE Join(_, _)
Join(parts, sep) ==
    IF Len(parts) = 0 THEN <<>>
    ELSE IF Len(parts) = 1 THEN parts[1]
    ELSE parts[1] \o <<sep>> \o Join(Tail(parts), sep)

\* F applied to the value of x, x being evaluated once
Bind(x, F(_)) == CHOOSE r \in {F(v) : v \in {x}} : TRUE

\* An optional argument: undefined, or a value
Undefined == <<>>
Some(v) == <<v>>
\* x ?? d
OrElse(x, d) == IF x = Undefined THEN d ELSE x[1]

\* Array.prototype.slice(start, end): a negative index counts from the end
Slice(arr, start, end) ==
    LET len == Len(arr)
        from == IF start < 0 THEN Max(len + start, 0) ELSE Min(start, len)
        to == IF end < 0 THEN Max(len + end, 0) ELSE Min(end, len)
    IN  IF from >= to THEN <<>> ELSE SubSeq(arr, from + 1, to)

NL == "\n"

----------------------------------------------------------------------------
(* node:path (posix): sep, isAbsolute, normalize, resolve                  *)

Sep == "/"
Dot == <<".">>
DotDot == <<".", ".">>

\* The process working directory, which path.resolve prepends to a relative path
Cwd == <<"/", "a">>

IsAbsolute(p) == Len(p) > 0 /\ p[1] = Sep

\* normalizeString: drops empty and '.' segments, resolves '..' against the
\* segment before it; above the top, '..' is kept only when allowAboveRoot.
RECURSIVE NormalizeSegs(_, _, _)
NormalizeSegs(raw, acc, allowAboveRoot) ==
    IF Len(raw) = 0 THEN acc
    ELSE LET seg == Head(raw) IN
         IF seg = <<>> \/ seg = Dot
         THEN NormalizeSegs(Tail(raw), acc, allowAboveRoot)
         ELSE IF seg = DotDot
         THEN IF Len(acc) > 0 /\ Last(acc) # DotDot
              THEN NormalizeSegs(Tail(raw), Front(acc), allowAboveRoot)
              ELSE IF allowAboveRoot
              THEN NormalizeSegs(Tail(raw), Append(acc, DotDot), allowAboveRoot)
              ELSE NormalizeSegs(Tail(raw), acc, allowAboveRoot)
         ELSE NormalizeSegs(Tail(raw), Append(acc, seg), allowAboveRoot)

\* path.normalize
Normalize(p) ==
    IF Len(p) = 0 THEN Dot
    ELSE LET abs == IsAbsolute(p)
             trailing == Last(p) = Sep
             body == Join(NormalizeSegs(Split(p, Sep), <<>>, ~abs), Sep)
         IN  IF Len(body) = 0
             THEN (IF abs THEN <<Sep>> ELSE IF trailing THEN <<".", "/">> ELSE Dot)
             ELSE (IF abs THEN <<Sep>> ELSE <<>>) \o body
                  \o (IF trailing THEN <<Sep>> ELSE <<>>)

\* path.resolve(...parts): the parts are taken from the right until an absolute
\* one is found, empty parts are skipped, the working directory comes last.
RECURSIVE ResolveJoin(_, _)
ResolveJoin(parts, acc) ==
    IF IsAbsolute(acc) THEN acc
    ELSE IF Len(parts) = 0 THEN Cwd \o <<Sep>> \o acc
    ELSE IF Len(Last(parts)) = 0 THEN ResolveJoin(Front(parts), acc)
    ELSE ResolveJoin(Front(parts), Last(parts) \o <<Sep>> \o acc)

Resolve(parts) ==
    <<Sep>> \o Join(NormalizeSegs(Split(ResolveJoin(parts, <<>>), Sep), <<>>, FALSE), Sep)

\* The segments of the absolute form of p, with '.' and '..' resolved
AbsSegs(p) ==
    NormalizeSegs(Split(IF IsAbsolute(p) THEN p ELSE Cwd \o <<Sep>> \o p, Sep),
                  <<>>, FALSE)

----------------------------------------------------------------------------
(* PathSandbox: validatePathAccess                                         *)

Thrown(msg) == [kind |-> "throw", error |-> msg]
Returned(v) == [kind |-> "return", value |-> v]

\* A slip of the prefix test: the separator after the root is forgotten
RECURSIVE AdmittingRootNaivePrefix(_, _, _)
AdmittingRootNaivePrefix(normalized, allowedRoots, i) ==
    IF i > Len(allowedRoots) THEN 0
    ELSE LET normalizedRoot == Normalize(Resolve(<<allowedRoots[i]>>)) IN
         IF StartsWith(normalized, normalizedRoot) \/ normalized = normalizedRoot
         THEN i
         ELSE AdmittingRootNaivePrefix(normalized, allowedRoots, i + 1)

\* The first root (in list order) that admits the normalized path
RECURSIVE AdmittingRoot(_, _, _)
AdmittingRoot(normalized, allowedRoots, i) ==
    IF i > Len(allowedRoots) THEN 0
    ELSE LET normalizedRoot == Normalize(Resolve(<<allowedRoots[i]>>)) IN
         IF StartsWith(normalized, normalizedRoot \o <<Sep>>) \/ normalized = normalizedRoot
         THEN i
         ELSE AdmittingRoot(normalized, allowedRoots, i + 1)

\* Error(`Path '${targetPath}' is outside allowed directories`)
OutsideAllowed(targetPath) == [msg |-> "is outside allowed directories", path |-> targetPath]

validatePathAccess(targetPath, allowedRoots) ==
    LET normalized == Normalize(Resolve(<<targetPath>>)) IN
    IF AdmittingRoot(normalized, allowedRoots, 1) # 0
    THEN Returned(normalized)
    ELSE Thrown(OutsideAllowed(targetPath))

\* Inputs of the sandbox check
PathChars == {"/", ".", "a"}
MaxPathLen == 5
MaxRoots == 2
TargetPaths == SeqsUpTo(PathChars, MaxPathLen)
RootSet == { <<"/">>, <<"/", "a">>, <<"/", "a", "/", "a">>, <<"/", "a", "/">> }
RootLists == SeqsUpTo(RootSet, MaxRoots)

Pending == [kind |-> "pending"]

PathInit ==
    /\ pTarget \in TargetPaths
    /\ pRoots \in RootLists
    /\ pOutcome = Pending

PathIdle ==
    /\ pTarget = <<>>
    /\ pRoots = <<>>
    /\ pOutcome = Pending

ValidatePath ==
    /\ pOutcome = Pending
    /\ pOutcome' = validatePathAccess(pTarget, pRoots)
    /\ UNCHANGED <<pTarget, pRoots>>

----------------------------------------------------------------------------
(* MetadataCache: class LRUCache                                           *)

Keys == {"k1", "k2", "k3", "k4"}
Values == {"v1", "v2"}
Absent == "undefined"
None == "none"

\* The largest capacity of the cache taken alone, and the capacity of the
\* metadata cache under the tools: DOCFS_METADATA_CACHE_SIZE (default 10000)
MaxCap == 3
MetadataCap == 2
MaxTime == 3
Ttl == 1

\* Position of key in the Map's entry sequence, 0 when it has none
RECURSIVE IndexOfKey(_, _, _)
IndexOfKey(c, key, i) ==
    IF i > Len(c) THEN 0
    ELSE IF c[i].key = key THEN i
    ELSE IndexOfKey(c, key, i + 1)

HasKey(c, key) == IndexOfKey(c, key, 1) # 0

\* Map.prototype.delete: the other entries keep their order
RemoveAt(c, i) == SubSeq(c, 1, i - 1) \o SubSeq(c, i + 1, Len(c))

MapDelete(c, key) ==
    LET i == IndexOfKey(c, key, 1) IN IF i = 0 THEN c ELSE RemoveAt(c, i)

\* Slips of get: the read does not refresh the LRU order; expiry is not checked
LRUGetNoPromote(c, key, t) ==
    LET i == IndexOfKey(c, key, 1) IN
    IF i = 0 THEN [cache |-> c, result |-> Absent, branch |-> "miss"]
    ELSE IF t > c[i].expires
    THEN [cache |-> RemoveAt(c, i), result |-> Absent, branch |-> "expired"]
    ELSE [cache |-> c, result |-> c[i].value, branch |-> "hit"]

LRUGetNoExpiry(c, key, t) ==
    LET i == IndexOfKey(c, key, 1) IN
    IF i = 0 THEN [cache |-> c, result |-> Absent, branch |-> "miss"]
    ELSE [cache |-> Append(RemoveAt(c, i), c[i]), result |-> c[i].value, branch |-> "hit"]

\* A slip of get: a hit also renews the expiry of the entry
LRUGetExtendsExpiry(c, key, t) ==
    LET i == IndexOfKey(c, key, 1) IN
    IF i = 0 THEN [cache |-> c, result |-> Absent, branch |-> "miss"]
    ELSE IF t > c[i].expires
    THEN [cache |-> RemoveAt(c, i), result |-> Absent, branch |-> "expired"]
    ELSE [cache |-> Append(RemoveAt(c, i), [c[i] EXCEPT !.expires = t + Ttl]),
          result |-> c[i].value, branch |-> "hit"]

\* LRUCache.get at time t: the Map after the call, the value returned, the branch
LRUGet(c, key, t) ==
    LET i == IndexOfKey(c, key, 1) IN
    IF i = 0 THEN [cache |-> c, result |-> Absent, branch |-> "miss"]
    ELSE IF t > c[i].expires
    THEN [cache |-> RemoveAt(c, i), result |-> Absent, branch |-> "expired"]
    ELSE [cache |-> Append(RemoveAt(c, i), c[i]), result |-> c[i].value, branch |-> "hit"]

\* A slip of set: an entry already present is overwritten where it stands
LRUSetInPlace(c, key, value, t, cap, ttl) ==
    LET entry == [key |-> key, value |-> value, expires |-> t + ttl]
        inserted == IF \E i \in 1..Len(c) : c[i].key = key
                    THEN [i \in 1..Len(c) |-> IF c[i].key = key THEN entry ELSE c[i]]
                    ELSE Append(c, entry)
    IN  IF Len(inserted) > cap
        THEN [cache |-> Tail(inserted), evicted |-> Head(inserted).key]
        ELSE [cache |-> inserted, evicted |-> None]

\* A slip of set: the overflow is never evicted
LRUSetNoEvict(c, key, value, t, cap, ttl) ==
    [cache |-> Append(MapDelete(c, key), [key |-> key, value |-> value, expires |-> t + ttl]),
     evicted |-> None]

\* LRUCache.set at time t: the Map after the call and the key evicted, if any
LRUSet(c, key, value, t, cap, ttl) ==
    LET entry == [key |-> key, value |-> value, expires |-> t + ttl]
        inserted == Append(MapDelete(c, key), entry)
    IN  IF Len(inserted) > cap
        THEN [cache |-> Tail(inserted), evicted |-> Head(inserted).key]
        ELSE [cache |-> inserted, evicted |-> None]

\* LRUCache.clear
LRUClear(c) == <<>>

NoCall == [op |-> "none", key |-> None, value |-> None, result |-> None,
           branch |-> None, evicted |-> None]

\* The history order after an access to key: key becomes the most recent
Touch(order, key) == Append(SelectSeq(order, LAMBDA k : k # key), key)
Forget(order, key) == SelectSeq(order, LAMBDA k : k # key)

CacheInit ==
    /\ cache = <<>>
    /\ maxSize \in 0..MaxCap
    /\ now = 0
    /\ ret = NoCall
    /\ recency = <<>>
    /\ lastSet = [k \in Keys |-> -1]

CacheIdle ==
    /\ cache = <<>>
    /\ maxSize = 0
    /\ now = 0
    /\ ret = NoCall
    /\ recency = <<>>
    /\ lastSet = [k \in Keys |-> -1]

Get(key) ==
    LET r == LRUGet(cache, key, now) IN
    /\ cache' = r.cache
    /\ ret' = [op |-> "get", key |-> key, value |-> None, result |-> r.result,
               branch |-> r.branch, evicted |-> None]
    /\ recency' = IF r.branch = "hit" THEN Touch(recency, key)
                  ELSE IF r.branch = "expired" THEN Forget(recency, key)
                  ELSE recency
    /\ UNCHANGED <<maxSize, dirSize, now, lastSet>>

Set(key, value) ==
    LET r == LRUSet(cache, key, value, now, maxSize, Ttl) IN
    /\ cache' = r.cache
    /\ ret' = [op |-> "set", key |-> key, value |-> value, result |-> None,
               branch |-> None, evicted |-> r.evicted]
    /\ recency' = IF r.evicted = None THEN Touch(recency, key)
                  ELSE Forget(Touch(recency, key), r.evicted)
    /\ lastSet' = [lastSet EXCEPT ![key] = now]
    /\ UNCHANGED <<maxSize, dirSize, now>>

Clear ==
    /\ cache' = LRUClear(cache)
    /\ ret' = [NoCall EXCEPT !.op = "clear"]
    /\ recency' = <<>>
    /\ UNCHANGED <<maxSize, dirSize, now, lastSet>>

\* Time passes between calls
Tick ==
    /\ now < MaxTime
    /\ now' = now + 1
    /\ UNCHANGED <<cache, maxSize, dirSize, ret, recency, lastSet>>

----------------------------------------------------------------------------
(* RangeReader: readFileContent                                            *)

\* A slip of readFileContent: the start line is taken as a 0-based index
readFileContentFromIndex(content, readable, startLine, endLine) ==
    IF ~readable THEN Thrown([msg |-> "Failed to read file"])
    ELSE IF startLine = Undefined /\ endLine = Undefined THEN Returned(content)
    ELSE LET lines == Split(content, NL)
             start == Max(0, OrElse(startLine, 1))
             end == Min(Len(lines), OrElse(endLine, Len(lines)))
         IN  Returned(Join(Slice(lines, start, end), NL))

readFileContent(content, readable, startLine, endLine) ==
    IF ~readable THEN Thrown([msg |-> "Failed to read file"])
    ELSE IF startLine = Undefined /\ endLine = Undefined THEN Returned(content)
    ELSE LET lines == Split(content, NL)
             start == Max(0, OrElse(startLine, 1) - 1)
             end == Min(Len(lines), OrElse(endLine, Len(lines)))
         IN  Returned(Join(Slice(lines, start, end), NL))

ContentChars == {"x", "y", NL}
MaxContentLen == 4
MaxLineArg == 4
Contents == SeqsUpTo(ContentChars, MaxContentLen)
\* The line arguments readSingleFile passes on: parseInput has floored each
\* number at 1, and the handler has rejected a start line above the end line
LineArgs == {Undefined} \cup {Some(n) : n \in 1..MaxLineArg}

ReadInit ==
    /\ rContent \in Contents
    /\ rReadable \in BOOLEAN
    /\ rStart \in LineArgs
    /\ rEnd \in LineArgs
    /\ (rStart # Undefined /\ rEnd # Undefined) => rStart[1] <= rEnd[1]
    /\ rOutcome = Pending

ReadIdle ==
    /\ rContent = <<>>
    /\ rReadable = TRUE
    /\ rStart = Undefined
    /\ rEnd = Undefined
    /\ rOutcome = Pending

ReadContent ==
    /\ rOutcome = Pending
    /\ rOutcome' = readFileContent(rContent, rReadable, rStart, rEnd)
    /\ UNCHANGED <<rContent, rReadable, rStart, rEnd>>

----------------------------------------------------------------------------
(* The filesystem under the tools, and getFileInfo                         *)

\* path.relative(from, to): '..' for each segment of from below the common
\* ancestor, then the rest of to
RECURSIVE CommonLen(_, _, _)
CommonLen(a, b, n) ==
    IF n < Len(a) /\ n < Len(b) /\ a[n + 1] = b[n + 1]
    THEN CommonLen(a, b, n + 1)
    ELSE n

Relative(from, to) ==
    LET f == AbsSegs(from)
        t == AbsSegs(to)
        c == CommonLen(f, t, 0)
    IN  Join([i \in 1..(Len(f) - c) |-> DotDot] \o SubSeq(t, c + 1, Len(t)), Sep)

\* path.basename of a normalized path
Basename(p) ==
    LET segs == SelectSeq(Split(p, Sep), LAMBDA x : x # <<>>)
    IN  IF segs = <<>> THEN <<>> ELSE Last(segs)

MissingNode == [kind |-> "missing"]

\* What fs.stat reports as the size of a directory is decided by the
\* filesystem: one block of 4096 bytes on ext4 for the few entries a directory
\* of the model holds, 20 bytes for each entry and for '.' and '..' on tmpfs
\* (40, 60, 80, ...). The code copies the size and never looks at it. The
\* filesystem of one behaviour, and the size of a directory on it:
SizeProfiles == {"ext4", "tmpfs"}

DirSizeOf(entries) == IF dirSize = "tmpfs" THEN 40 + 20 * entries ELSE 4096

DirNode(size) == [kind |-> "dir", size |-> size]

\* A directory holding that many entries
DirOf(entries) == DirNode(DirSizeOf(entries))

FileNode(size, readable, content) ==
    [kind |-> "file", size |-> size, readable |-> readable, content |-> content]

\* Directories that exist in every filesystem of the model
AlwaysDirs == { <<"/">>, <<"/", "a">>, <<"/", "b">> }

Lookup(fs, p) ==
    IF p \in DOMAIN fs THEN fs[p]
    ELSE IF p \in AlwaysDirs THEN DirOf(0)
    ELSE MissingNode

\* What fs.stat finds at p in a world: a root of the model holds the entries
\* readdir gives for it
StatAt(world, p) ==
    IF p \notin DOMAIN world.fs /\ p \in AlwaysDirs /\ p \in DOMAIN world.dirs
    THEN DirOf(Len(world.dirs[p]))
    ELSE Lookup(world.fs, p)

IoCall(call, p) == [call |-> call, path |-> p]

\* The FileInfo built from fs.stat (modified and extension are left out)
FileInfoOf(p, node) ==
    [path |-> p, name |-> Basename(p), size |-> node.size,
     isDirectory |-> node.kind = "dir"]

\* --- Asynchronous calls. The code runs a call as a chain of segments, each
\* ending at an await of filesystem I/O or at the return; between two segments
\* the clock, the files and the metadata cache may change. A call in progress
\* keeps the log of the worlds its segments saw: log[1] is the world at the
\* call, log[k + 1] the world when its k-th await completed. The I/O of an
\* await is carried out against the world in which the await completes.

\* The world at one moment
Snapshot(fs, dirs, t, c) == [fs |-> fs, dirs |-> dirs, now |-> t, cache |-> c]

Running == [kind |-> "running"]

\* The call has returned or thrown
Done(outcome) == outcome.kind \in {"return", "throw"}

\* The cursor of a call: the segment it is in, the metadata cache as that
\* segment has left it, the I/O calls made, and (susp) the cache and the I/O
\* calls at the await the log does not reach, where the call is suspended
StartOf(env) ==
    [k |-> 1, cache |-> env.log[1].cache, trace |-> <<>>, susp |-> Undefined]

\* The world the current segment sees; past the end of the log, the last one
WorldAt(env, cur) == env.log[Min(cur.k, Len(env.log))]

\* await: the segment ends. The next one starts in the world of the next log
\* entry, with the metadata cache as it is then; at the end of the log the
\* call is suspended here
Yield(env, cur) ==
    [k |-> cur.k + 1,
     cache |-> IF cur.k + 1 <= Len(env.log) THEN env.log[cur.k + 1].cache ELSE cur.cache,
     trace |-> cur.trace,
     susp |-> IF cur.k = Len(env.log)
              THEN Some([cache |-> cur.cache, trace |-> cur.trace])
              ELSE cur.susp]

\* A filesystem call recorded in the trace
Noted(cur, io) == [cur EXCEPT !.trace = Append(cur.trace, io)]

\* await of the filesystem call io: its result is read from the world of the
\* next segment
Await(env, cur, io) == Yield(env, Noted(cur, io))

\* await of the promise of an async function that has run to its end with
\* the result r
Awaited(env, r) == [r EXCEPT !.cur = Yield(env, r.cur)]

\* Where a call stands after the segments of the log: returned or thrown
\* (done), or suspended at an await
Progress(r) ==
    IF r.cur.susp = Undefined
    THEN [done |-> TRUE, outcome |-> r.outcome, cache |-> r.cur.cache,
          trace |-> r.cur.trace]
    ELSE [done |-> FALSE, outcome |-> Running, cache |-> r.cur.susp[1].cache,
          trace |-> r.cur.susp[1].trace]

FailedToGetInfo(p) == [msg |-> "Failed to get info for", path |-> p]

\* A slip of getFileInfo: the cache is written but never read
getFileInfoAlwaysStat(p, env, cur) ==
    Bind(LRUGet(cur.cache, p, WorldAt(env, cur).now), LAMBDA cached :
    Bind(Await(env, [cur EXCEPT !.cache = cached.cache], IoCall("stat", p)),
         LAMBDA resumed :
         Bind(StatAt(WorldAt(env, resumed), p), LAMBDA node :
         IF node.kind = "missing"
         THEN [outcome |-> Thrown(FailedToGetInfo(p)), cur |-> resumed]
         ELSE Bind(FileInfoOf(p, node), LAMBDA info :
              [outcome |-> Returned(info),
               cur |-> [resumed EXCEPT !.cache =
                           LRUSet(resumed.cache, p, info, WorldAt(env, resumed).now,
                                  env.cap, env.ttl).cache]]))))

\* getFileInfo: read-through of the metadata cache. The lookup is made at the
\* call; on a miss fs.stat is awaited and the entry is stored, stamped with
\* the clock, when the await has completed
getFileInfo(p, env, cur) ==
    Bind(LRUGet(cur.cache, p, WorldAt(env, cur).now), LAMBDA cached :
    IF cached.branch = "hit"
    THEN [outcome |-> Returned(cached.result), cur |-> [cur EXCEPT !.cache = cached.cache]]
    ELSE Bind(Await(env, [cur EXCEPT !.cache = cached.cache], IoCall("stat", p)),
              LAMBDA resumed :
         Bind(StatAt(WorldAt(env, resumed), p), LAMBDA node :
         IF node.kind = "missing"
         THEN [outcome |-> Thrown(FailedToGetInfo(p)), cur |-> resumed]
         ELSE Bind(FileInfoOf(p, node), LAMBDA info :
              [outcome |-> Returned(info),
               cur |-> [resumed EXCEPT !.cache =
                           LRUSet(resumed.cache, p, info, WorldAt(env, resumed).now,
                                  env.cap, env.ttl).cache]]))))

\* --- What happens around a call in progress. envLeft holds how many clock
\* ticks, clears of the metadata cache, filesystem changes and getFileInfo
\* calls of other requests may still happen while calls are suspended, and
\* (awaiting) the path whose fs.stat a getFileInfo call of another request is
\* awaiting.
MaxTicks == 2
MaxClears == 1
MaxChanges == 1
MaxOtherCalls == 1

NoEnv == [ticks |-> 0, clears |-> 0, changes |-> 0, others |-> 0, awaiting |-> Undefined]

\* What the world may do while a call is suspended: the clock advances
\* MaxTicks times; or the cache is cleared, or the filesystem changes, or
\* another request gets the metadata of a path, with the clock advancing
\* before or after
RacingBudgets ==
    { [NoEnv EXCEPT !.ticks = MaxTicks],
      [NoEnv EXCEPT !.ticks = MaxTicks - 1, !.clears = MaxClears],
      [NoEnv EXCEPT !.ticks = MaxTicks - 1, !.changes = MaxChanges],
      [NoEnv EXCEPT !.ticks = MaxTicks - 1, !.others = MaxOtherCalls] }

AwaitIdle ==
    /\ ioLog = <<>>
    /\ envLeft = NoEnv

\* The platform of a behaviour
PlatformInit == dirSize \in SizeProfiles

\* No directory is looked at
PlatformIdle == dirSize = "ext4"

\* The log of the call in progress, extended with the world as it is now
LogNow(fs, dirs) == Append(ioLog, Snapshot(fs, dirs, now, cache))

\* The log of a call that starts now
LogFromNow(fs, dirs) == <<Snapshot(fs, dirs, now, cache)>>

\* What a call sees: the worlds of its segments, the configured roots, the
\* settings of the metadata cache
CallEnv(log, roots) == [log |-> log, roots |-> roots, cap |-> maxSize, ttl |-> Ttl]

\* The call as it would run in a world that stands still
QuietEnv(fs, dirs, roots) == CallEnv(<<Snapshot(fs, dirs, now, <<>>)>>, roots)

\* The filesystem did not change while the call of the log ran
FsStable(log) ==
    \A i \in 1..Len(log) : log[i].fs = log[1].fs /\ log[i].dirs = log[1].dirs

\* The call has ended, and the filesystem stood still while it ran
Settled(outcome) == Done(outcome) /\ FsStable(ioLog)

\* One of the things that may still happen around the call happens
Spend(what) ==
    /\ envLeft[what] > 0
    /\ envLeft' = [envLeft EXCEPT ![what] = @ - 1]

\* Date.now() advances
ClockAdvances ==
    /\ now' = now + 1
    /\ UNCHANGED <<cache, maxSize, dirSize, ret, recency, lastSet>>

\* clearFileInfoCache()
clearFileInfoCache ==
    /\ cache' = LRUClear(cache)
    /\ UNCHANGED <<maxSize, dirSize, now, ret, recency, lastSet>>

\* A request that runs while this call is suspended calls getFileInfo(p): the
\* lookup in the metadata cache, made at the call. On a hit the call returns;
\* on a miss it awaits fs.stat
OtherCallStarts(p) ==
    /\ envLeft.others > 0
    /\ envLeft.awaiting = Undefined
    /\ \E cached \in {LRUGet(cache, p, now)} :
           /\ cached.branch = "hit" => cached.cache # cache
           /\ cache' = cached.cache
           /\ envLeft' = [envLeft EXCEPT !.others = @ - 1,
                                         !.awaiting = IF cached.branch = "hit"
                                                      THEN Undefined ELSE Some(p)]
    /\ UNCHANGED <<maxSize, dirSize, now, ret, recency, lastSet>>

\* The fs.stat the other request awaits completes: on the filesystem as it is
\* now the call throws, or stores the entry, stamped with the clock as it is
\* now, and returns
OtherCallCompletes(fs) ==
    /\ envLeft.awaiting # Undefined
    /\ \E p \in {envLeft.awaiting[1]} :
       \E node \in {Lookup(fs, p)} :
           cache' = IF node.kind = "missing" THEN cache
                    ELSE LRUSet(cache, p, FileInfoOf(p, node), now, maxSize, Ttl).cache
    /\ envLeft' = [envLeft EXCEPT !.awaiting = Undefined]
    /\ UNCHANGED <<maxSize, dirSize, now, ret, recency, lastSet>>

----------------------------------------------------------------------------
(* read_files: parseInput, resolveFilePath, readSingleFile, handler        *)

MaxFiles == 10
MinMaxFileSize == 1024
DefaultMaxFileSize == 1048576

\* parseInput of read_files (the encoding and the string form of 'paths' are
\* left out)
readFilesParseInput(input) ==
    LET paths == IF input.path # Undefined THEN <<input.path[1]>>
                 ELSE IF input.paths # Undefined THEN input.paths[1]
                 ELSE <<>>
    IN  IF input.path = Undefined /\ input.paths = Undefined
        THEN Thrown([msg |-> "Either path or paths parameter is required"])
        ELSE IF Len(paths) = 0
        THEN Thrown([msg |-> "At least one file path is required"])
        ELSE IF Len(paths) > MaxFiles
        THEN Thrown([msg |-> "Maximum of 10 files can be read at once"])
        ELSE Returned([
            paths |-> paths,
            startLine |-> IF input.startLine = Undefined THEN Undefined
                          ELSE Some(Max(1, input.startLine[1])),
            endLine |-> IF input.endLine = Undefined THEN Undefined
                        ELSE Some(Max(1, input.endLine[1])),
            showLineNumbers |-> OrElse(input.showLineNumbers, TRUE),
            maxFileSize |-> IF input.maxFileSize = Undefined THEN DefaultMaxFileSize
                            ELSE Max(MinMaxFileSize, input.maxFileSize[1])])

DigitChars == <<"0", "1", "2", "3", "4", "5", "6", "7", "8", "9">>

\* `${n}` for 0 <= n < 100
NumStr(n) ==
    IF n < 10 THEN <<DigitChars[n + 1]>>
    ELSE <<DigitChars[(n \div 10) + 1], DigitChars[(n % 10) + 1]>>

addLineNumbers(content, startLine) ==
    LET lines == Split(content, NL) IN
    Join([i \in 1..Len(lines) |-> NumStr(startLine + i - 1) \o <<"|", " ">> \o lines[i]], NL)

NotFoundInRoots(filePath, rootPaths) ==
    [msg |-> "not found within allowed roots", path |-> filePath, roots |-> rootPaths]

\* pathExists: fs.access is awaited; true when it succeeds
pathExists(p, env, cur) ==
    Bind(Await(env, cur, IoCall("access", p)), LAMBDA resumed :
         [value |-> Lookup(WorldAt(env, resumed).fs, p).kind # "missing",
          cur |-> resumed])

\* The loop of resolveFilePath over the roots, from root i on
RECURSIVE ResolveAgainstRoots(_, _, _, _, _)
ResolveAgainstRoots(filePath, rootPaths, i, env, cur) ==
    IF i > Len(rootPaths)
    THEN [outcome |-> Thrown(NotFoundInRoots(filePath, rootPaths)), cur |-> cur]
    ELSE Bind(validatePathAccess(Normalize(Resolve(<<rootPaths[i], filePath>>)),
                                 <<rootPaths[i]>>),
              LAMBDA withinRoot :
         IF withinRoot.kind = "throw"
         THEN ResolveAgainstRoots(filePath, rootPaths, i + 1, env, cur)
         ELSE Bind(Awaited(env, pathExists(withinRoot.value, env, cur)), LAMBDA exists :
              IF exists.value
              THEN [outcome |-> withinRoot, cur |-> exists.cur]
              ELSE ResolveAgainstRoots(filePath, rootPaths, i + 1, env, exists.cur)))

resolveFilePath(filePath, rootPaths, env, cur) ==
    IF IsAbsolute(filePath)
    THEN [outcome |-> validatePathAccess(filePath, rootPaths), cur |-> cur]
    ELSE ResolveAgainstRoots(filePath, rootPaths, 1, env, cur)

\* The path shown in the result: relative to the first root that is a string
\* prefix of the validated path
RECURSIVE DisplayPath(_, _, _, _)
DisplayPath(filePath, validatedPath, rootPaths, i) ==
    IF i > Len(rootPaths) THEN filePath
    ELSE IF StartsWith(validatedPath, rootPaths[i])
    THEN Relative(rootPaths[i], validatedPath)
    ELSE DisplayPath(filePath, validatedPath, rootPaths, i + 1)

FileTooLarge(size, max) == [msg |-> "File too large", size |-> size, max |-> max]

\* The tail of readSingleFile, once the metadata is at hand: the checks on
\* the metadata, then readFileContent, whose fs.readFile is awaited
ReadChecked(filePath, validatedPath, fileInfo, params, env, cur) ==
    IF fileInfo.isDirectory
    THEN [outcome |-> Thrown([msg |-> "Cannot read directory", path |-> filePath]),
          cur |-> cur]
    ELSE IF fileInfo.size > params.maxFileSize
    THEN [outcome |-> Thrown(FileTooLarge(fileInfo.size, params.maxFileSize)),
          cur |-> cur]
    ELSE Bind(Await(env, cur, IoCall("readFile", validatedPath)), LAMBDA resumed :
         Bind(Lookup(WorldAt(env, resumed).fs, validatedPath), LAMBDA node :
         Bind(readFileContent(IF node.kind = "file" THEN node.content ELSE <<>>,
                              node.kind = "file" /\ node.readable,
                              params.startLine, params.endLine),
              LAMBDA content :
         Bind(Yield(env, resumed), LAMBDA back :
              [outcome |->
                  IF content.kind = "throw" THEN content
                  ELSE Returned([
                         path |-> DisplayPath(filePath, validatedPath, env.roots, 1),
                         content |-> IF params.showLineNumbers
                                     THEN addLineNumbers(content.value,
                                                         OrElse(params.startLine, 1))
                                     ELSE content.value]),
               cur |-> back]))))

\* readSingleFile: the outcome, and in the cursor the calls made and the
\* metadata cache afterwards
readSingleFile(filePath, params, env, cur) ==
    Bind(Awaited(env, resolveFilePath(filePath, env.roots, env,
                                      Noted(cur, IoCall("resolve", filePath)))),
         LAMBDA resolved :
    IF resolved.outcome.kind = "throw"
    THEN resolved
    ELSE Bind(Awaited(env, getFileInfo(resolved.outcome.value, env, resolved.cur)),
              LAMBDA info :
         IF info.outcome.kind = "throw"
         THEN info
         ELSE ReadChecked(filePath, resolved.outcome.value, info.outcome.value,
                          params, env, info.cur)))

\* The results entry of one path: the file read, or the path with the error
ResultEntry(filePath, file) ==
    IF file.outcome.kind = "return" THEN file.outcome.value
    ELSE [path |-> filePath, error |-> file.outcome.error]

\* A slip of the handler's loop: the first failing file ends the batch
RECURSIVE ReadEachStopAtError(_, _, _, _, _)
ReadEachStopAtError(paths, i, params, env, acc) ==
    IF i > Len(paths) THEN acc
    ELSE Bind(Awaited(env, readSingleFile(paths[i], params, env, acc.cur)),
              LAMBDA file :
         IF file.outcome.kind = "throw"
         THEN [results |-> acc.results
                   \o [k \in 1..(Len(paths) - i + 1) |->
                          [path |-> paths[i + k - 1], error |-> file.outcome.error]],
               cur |-> file.cur]
         ELSE ReadEachStopAtError(paths, i + 1, params, env,
                                  [results |-> Append(acc.results, file.outcome.value),
                                   cur |-> file.cur]))

\* The loop of the handler over params.paths, from path i on: each path adds
\* its entry, whether the read succeeded or threw
RECURSIVE ReadEach(_, _, _, _, _)
ReadEach(paths, i, params, env, acc) ==
    IF i > Len(paths) THEN acc
    ELSE Bind(Awaited(env, readSingleFile(paths[i], params, env, acc.cur)),
              LAMBDA file :
         ReadEach(paths, i + 1, params, env,
                  [results |-> Append(acc.results, ResultEntry(paths[i], file)),
                   cur |-> file.cur]))

StartAfterEnd == [msg |-> "Start line cannot be greater than end line"]

\* A slip of the handler: the range is checked only after the files are read
readFilesHandlerLateCheck(input, env, cur) ==
    Bind(readFilesParseInput(input), LAMBDA parsed :
    IF parsed.kind = "throw"
    THEN [outcome |-> parsed, cur |-> cur]
    ELSE Bind(ReadEach(parsed.value.paths, 1, parsed.value, env,
                       [results |-> <<>>, cur |-> cur]),
              LAMBDA done :
              IF /\ parsed.value.startLine # Undefined
                 /\ parsed.value.endLine # Undefined
                 /\ parsed.value.startLine[1] > parsed.value.endLine[1]
              THEN [outcome |-> Thrown(StartAfterEnd), cur |-> done.cur]
              ELSE [outcome |-> Returned(done.results), cur |-> done.cur]))

\* readFiles.handler
readFilesHandler(input, env, cur) ==
    Bind(readFilesParseInput(input), LAMBDA parsed :
    IF parsed.kind = "throw"
    THEN [outcome |-> parsed, cur |-> cur]
    ELSE IF /\ parsed.value.startLine # Undefined
            /\ parsed.value.endLine # Undefined
            /\ parsed.value.startLine[1] > parsed.value.endLine[1]
    THEN [outcome |-> Thrown(StartAfterEnd), cur |-> cur]
    ELSE Bind(ReadEach(parsed.value.paths, 1, parsed.value, env,
                       [results |-> <<>>, cur |-> cur]),
              LAMBDA done :
              [outcome |-> Returned(done.results), cur |-> done.cur]))

\* The configured roots and the files of the model's filesystems
RootA == <<"/", "a">>
RootB == <<"/", "b">>
FileAX == <<"/", "a", "/", "x">>
FileAY == <<"/", "a", "/", "y">>
FileBY == <<"/", "b", "/", "y">>

FileStates ==
    { MissingNode, DirOf(0),
      FileNode(500, TRUE, <<"x", NL, "y">>),
      FileNode(2000, TRUE, <<"x", NL, "y">>),
      FileNode(500, FALSE, <<>>) }

Filesystems ==
    { [p \in {FileAX, FileAY, FileBY} |->
          IF p = FileAX THEN x ELSE IF p = FileAY THEN y
          ELSE FileNode(500, TRUE, <<"y">>)] :
      x \in FileStates, y \in FileStates }

\* Requested paths: absolute inside a root, relative, absolute outside every
\* root, relative leaving the roots
RequestPaths == { FileAX, <<"y">>, <<"/", "x">>, <<".", ".", "/", "x">> }

MaxBatch == 2

PathLists ==
    SeqsUpTo(RequestPaths, MaxBatch)
        \cup {[i \in 1..(MaxFiles + 1) |-> p] : p \in {FileAX}}

LineRanges ==
    { <<Undefined, Undefined>>, <<Some(2), Undefined>>, <<Undefined, Some(1)>>,
      <<Some(1), Some(2)>>, <<Some(2), Some(1)>>, <<Some(1), Some(0)>> }

ReadFilesInputs ==
    { [path |-> Undefined, paths |-> Some(ps), startLine |-> lr[1], endLine |-> lr[2],
       showLineNumbers |-> sl, maxFileSize |-> mx] :
         ps \in PathLists, lr \in LineRanges,
         sl \in {Undefined, Some(FALSE)},
         mx \in {Undefined, Some(100)} }
    \cup
    { [path |-> pp, paths |-> Undefined, startLine |-> lr[1], endLine |-> lr[2],
       showLineNumbers |-> Undefined, maxFileSize |-> Undefined] :
         pp \in {Undefined} \cup {Some(p) : p \in RequestPaths}, lr \in LineRanges }

\* What a file of the model may become while a call is suspended
ChangedStates ==
    { MissingNode, DirOf(0), FileNode(2000, TRUE, <<"y", NL, "y", NL, "y">>) }

\* The calls followed through a changing world: one file or the same file
\* twice, absolute or relative
RacingInputs ==
    { [path |-> Undefined, paths |-> Some(ps), startLine |-> Undefined,
       endLine |-> Undefined, showLineNumbers |-> Undefined, maxFileSize |-> Some(1500)] :
         ps \in { <<FileAX>>, <<FileAX, FileAX>>, <<<<"x">>>> } }

RacingFilesystems ==
    { [p \in {FileAX, FileAY, FileBY} |->
          IF p = FileAX THEN FileNode(500, TRUE, <<"x", NL, "y">>)
          ELSE FileNode(500, TRUE, <<"y">>)] }

ToolIdle ==
    /\ ctxRoots = <<>>
    /\ fsFiles = <<>>
    /\ rfInput = <<>>
    /\ rfOutcome = Pending
    /\ rfTrace = <<>>

\* Either any request in a world that stands still, on either platform, or
\* one of the racing requests in a world that changes
ReadFilesInit ==
    /\ ctxRoots = <<RootA, RootB>>
    /\ dirSize \in SizeProfiles
    /\ \/ /\ fsFiles \in Filesystems
          /\ rfInput \in ReadFilesInputs
          /\ envLeft = NoEnv
       \/ /\ fsFiles \in RacingFilesystems
          /\ rfInput \in RacingInputs
          /\ envLeft \in RacingBudgets
    /\ rfOutcome = Pending
    /\ rfTrace = <<>>
    /\ ioLog = <<>>
    /\ cache = <<>>
    /\ maxSize = MetadataCap
    /\ now = 0
    /\ ret = NoCall
    /\ recency = <<>>
    /\ lastSet = [k \in Keys |-> -1]

\* One segment of the read_files call: from the call, or from the await it is
\* suspended at, to its next await or to its end
ReadFilesCall ==
    /\ rfOutcome \in {Pending, Running}
    /\ \E env \in {CallEnv(LogNow(fsFiles, <<>>), ctxRoots)} :
       \E p \in {Progress(readFilesHandler(rfInput, env, StartOf(env)))} :
           /\ rfOutcome' = p.outcome
           /\ rfTrace' = p.trace
           /\ cache' = p.cache
           /\ ioLog' = env.log
    /\ UNCHANGED <<ctxRoots, fsFiles, rfInput, maxSize, dirSize, now, ret, recency, lastSet, envLeft>>

\* A file is replaced, rewritten or deleted while the call is suspended
ReadFilesFsChange(p, node) ==
    /\ rfOutcome = Running
    /\ Spend("changes")
    /\ Lookup(fsFiles, p) # node
    /\ fsFiles' = [fsFiles EXCEPT ![p] = node]
    /\ UNCHANGED <<ctxRoots, rfInput, rfOutcome, rfTrace, cacheVars, dirSize, ioLog>>

----------------------------------------------------------------------------
(* TextSearchEngine: escapeRegExp, RegExp.prototype.test, searchInFile     *)

LowerLetters ==
    <<"a", "b", "c", "d", "e", "f", "g", "h", "i", "j", "k", "l", "m",
      "n", "o", "p", "q", "r", "s", "t", "u", "v", "w", "x", "y", "z">>
UpperLetters ==
    <<"A", "B", "C", "D", "E", "F", "G", "H", "I", "J", "K", "L", "M",
      "N", "O", "P", "Q", "R", "S", "T", "U", "V", "W", "X", "Y", "Z">>

\* The case folding of the 'i' flag on ASCII
ToLower(c) ==
    IF \E n \in 1..Len(UpperLetters) : UpperLetters[n] = c
    THEN LowerLetters[CHOOSE n \in 1..Len(UpperLetters) : UpperLetters[n] = c]
    ELSE c

\* \w
IsWordChar(c) ==
    \/ \E n \in 1..Len(LowerLetters) : LowerLetters[n] = c \/ UpperLetters[n] = c
    \/ \E n \in 1..Len(DigitChars) : DigitChars[n] = c
    \/ c = "_"

\* \b at offset b of the line (between the b-th character and the next)
WordBoundary(line, b) ==
    LET wordAt(n) == n \in 1..Len(line) /\ IsWordChar(line[n])
    IN  wordAt(b) # wordAt(b + 1)

\* The pattern built from the query (escaped, hence literal; wrapped in \b
\* when wholeWord) matches the line at offset p
MatchesAt(line, p, opts) ==
    /\ p + Len(opts.query) <= Len(line)
    /\ \A j \in 1..Len(opts.query) :
          IF opts.caseSensitive THEN line[p + j] = opts.query[j]
          ELSE ToLower(line[p + j]) = ToLower(opts.query[j])
    /\ opts.wholeWord =>
          WordBoundary(line, p) /\ WordBoundary(line, p + Len(opts.query))

\* RegExp.prototype.test of a regex with the 'g' flag: the search starts at
\* lastIndex, which a match moves to its end and a failure resets
RegexTest(line, lastIndex, opts) ==
    LET found == {p \in lastIndex..Len(line) : MatchesAt(line, p, opts)} IN
    IF lastIndex > Len(line) \/ found = {}
    THEN [matched |-> FALSE, lastIndex |-> 0]
    ELSE [matched |-> TRUE,
          lastIndex |-> (CHOOSE p \in found : \A q \in found : p <= q)
                            + Len(opts.query)]

\* A slip of the context window: its start is not clamped at the first line
MatchUnclamped(filePath, lines, i, opts) ==
    [file |-> filePath, line |-> i + 1, content |-> lines[i + 1],
     context |-> [before |-> Slice(lines, i - opts.contextLines, i),
                  after |-> Slice(lines, i + 1, i + 1 + opts.contextLines)]]

\* The match pushed for lines[i] (i counts from 0 as in the code)
MatchOf(filePath, lines, i, opts) ==
    [file |-> filePath, line |-> i + 1, content |-> lines[i + 1],
     context |-> [before |-> Slice(lines, Max(0, i - opts.contextLines), i),
                  after |-> Slice(lines, i + 1, i + 1 + opts.contextLines)]]

\* The loop of searchInFile over the lines, from lines[i] on
RECURSIVE SearchLines(_, _, _, _, _, _)
SearchLines(filePath, lines, i, lastIndex, opts, results) ==
    IF i >= Len(lines) THEN results
    ELSE Bind(RegexTest(lines[i + 1], lastIndex, opts), LAMBDA t :
         SearchLines(filePath, lines, i + 1, t.lastIndex, opts,
                     IF t.matched
                     THEN Append(results, MatchOf(filePath, lines, i, opts))
                     ELSE results))

\* searchInFile: the results array afterwards, or the error of fs.readFile
searchInFile(filePath, node, opts, results) ==
    IF node.kind # "file" \/ ~node.readable
    THEN Thrown([msg |-> "readFile failed", path |-> filePath])
    ELSE Returned(SearchLines(filePath, Split(node.content, NL), 0, 0, opts, results))

SearchChars == {"a", "A", "-", NL}
MaxSearchLen == 4
MaxContext == 2
SearchContents == SeqsUpTo(SearchChars, MaxSearchLen)
SearchQueries == {<<"a">>, <<"A">>, <<"-", "a">>}
SearchOptions ==
    [query : SearchQueries, caseSensitive : BOOLEAN, wholeWord : BOOLEAN,
     contextLines : 0..MaxContext]

SearchInit ==
    /\ sContent \in SearchContents
    /\ sOpts \in SearchOptions
    /\ sOutcome = Pending

SearchIdle ==
    /\ sContent = <<>>
    /\ sOpts = <<>>
    /\ sOutcome = Pending

SearchInFileCall ==
    /\ sOutcome = Pending
    /\ sOutcome' = searchInFile(FileAX, FileNode(Len(sContent), TRUE, sContent),
                                sOpts, <<>>)
    /\ UNCHANGED <<sContent, sOpts>>

----------------------------------------------------------------------------
(* IgnoreMatcher: loadIgnoreMatcher and the matcher of the 'ignore' package *)
(* for the patterns of the model: a name, or a name followed by '/'        *)

GitignoreName == <<".", "g", "i", "t", "i", "g", "n", "o", "r", "e">>

\* path.join
PathJoin(a, b) == Normalize(a \o <<Sep>> \o b)

\* ignore().add(content): one rule per line, blank lines and comments dropped;
\* a trailing '/' makes the rule match directories only
ParseIgnore(content) ==
    LET lines == SelectSeq(Split(content, NL),
                           LAMBDA l : l # <<>> /\ l[1] # "#")
    IN  [n \in 1..Len(lines) |->
            IF Last(lines[n]) = Sep
            THEN [name |-> Front(lines[n]), dirOnly |-> TRUE]
            ELSE [name |-> lines[n], dirOnly |-> FALSE]]

\* loadIgnoreMatcher: the rules of rootPath/.gitignore, none when the awaited
\* fs.readFile fails
loadIgnoreMatcher(rootPath, env, cur) ==
    Bind(Await(env, cur, IoCall("readFile", PathJoin(rootPath, GitignoreName))),
         LAMBDA resumed :
    Bind(Lookup(WorldAt(env, resumed).fs, PathJoin(rootPath, GitignoreName)),
         LAMBDA node :
         [value |-> IF node.kind = "file" /\ node.readable
                    THEN ParseIgnore(node.content) ELSE <<>>,
          cur |-> resumed]))

\* matcher.ignores(relPath): a rule names the last segment, or names a parent
\* segment (a parent is tested as a directory). relPath carries no trailing
\* '/', so its last segment is tested as a file and a directory-only rule
\* does not match it.
Ignores(matcher, relPath) ==
    LET segs == Split(relPath, Sep) IN
    \E n \in 1..Len(segs), r \in 1..Len(matcher) :
        /\ matcher[r].name = segs[n]
        /\ matcher[r].dirOnly => n < Len(segs)

----------------------------------------------------------------------------
(* DirectoryWalker: matchesPattern, walkDirectory, listFiles,              *)
(* getDirectoryTree, searchInDirectory, searchInFiles                      *)

DefaultMaxDepth == 10
DefaultContextLines == 2

\* The regex of matchesPattern ('*' is '.*', '?' is '.', flag 'i') matches
\* name from position i on, from pattern position j on
RECURSIVE GlobMatchesAt(_, _, _, _)
GlobMatchesAt(name, i, pattern, j) ==
    IF j > Len(pattern) THEN TRUE
    ELSE IF pattern[j] = "*"
    THEN \E k \in i..(Len(name) + 1) : GlobMatchesAt(name, k, pattern, j + 1)
    ELSE /\ i <= Len(name)
         /\ pattern[j] = "?" \/ ToLower(name[i]) = ToLower(pattern[j])
         /\ GlobMatchesAt(name, i + 1, pattern, j + 1)

\* matchesPattern: regex.test is not anchored
matchesPattern(fileName, pattern) ==
    \E start \in 1..(Len(fileName) + 1) : GlobMatchesAt(fileName, start, pattern, 1)

\* String.prototype.localeCompare(b) < 0 on names of '.' and lower-case
\* letters: punctuation sorts before letters, a prefix before its extensions
CollationRank(c) ==
    IF c = "." THEN 0 ELSE CHOOSE n \in 1..Len(LowerLetters) : LowerLetters[n] = c

RECURSIVE LocaleLess(_, _)
LocaleLess(a, b) ==
    IF Len(b) = 0 THEN FALSE
    ELSE IF Len(a) = 0 THEN TRUE
    ELSE IF Head(a) # Head(b) THEN CollationRank(Head(a)) < CollationRank(Head(b))
    ELSE LocaleLess(Tail(a), Tail(b))

\* The comparator of the sorts is negative: directories first, then by name
SortsBefore(a, b) ==
    IF a.isDirectory /\ ~b.isDirectory THEN TRUE
    ELSE IF ~a.isDirectory /\ b.isDirectory THEN FALSE
    ELSE LocaleLess(a.name, b.name)

\* A slip of the listing: the entries are left in traversal order
SortEntriesKeepsOrder(items, i, sorted) == items

\* Array.prototype.sort with that comparator (a stable sort)
RECURSIVE SortEntries(_, _, _)
SortEntries(items, i, sorted) ==
    IF i > Len(items) THEN sorted
    ELSE LET x == items[i]
             before == {n \in 1..Len(sorted) : SortsBefore(x, sorted[n])}
             at == IF before = {} THEN Len(sorted) + 1
                   ELSE CHOOSE n \in before : \A m \in before : n <= m
         IN  SortEntries(items, i + 1,
                         SubSeq(sorted, 1, at - 1) \o <<x>>
                             \o SubSeq(sorted, at, Len(sorted)))

\* fs.readdir: the entry names in directory order, or a failure
CanReaddir(world, dirPath) == dirPath \in DOMAIN world.dirs

\* The branch of walkDirectory that lists and descends into an entry before
\* the name pattern is looked at: every directory, whatever the pattern
IsTraversed(fileInfo, pattern) == fileInfo.isDirectory

\* The depth test at the head of walkDirectory
BeyondMaxDepth(currentDepth, maxDepth) == currentDepth > maxDepth

\* A slip of the hidden-entry test: the flag is read the wrong way round
SkipsHiddenInverted(includeHidden, entry) == includeHidden /\ StartsWith(entry, Dot)

\* The test of walkDirectory and getDirectoryTree that skips a hidden entry
SkipsHidden(includeHidden, entry) == ~includeHidden /\ StartsWith(entry, Dot)

\* walkDirectory and its loop over the entries, from entry i on. st holds the
\* results array and the cursor of the call; w holds the arguments that do
\* not change during the walk. A getFileInfo that throws ends the loop.
RECURSIVE walkDirectory(_, _, _, _, _)
RECURSIVE WalkEntries(_, _, _, _, _, _, _)
WalkEntries(dirPath, entries, i, st, currentDepth, w, env) ==
    IF i > Len(entries) THEN st
    ELSE IF SkipsHidden(w.includeHidden, entries[i])
    THEN WalkEntries(dirPath, entries, i + 1, st, currentDepth, w, env)
    ELSE IF Ignores(w.matcher, Relative(w.basePath, PathJoin(dirPath, entries[i])))
    THEN WalkEntries(dirPath, entries, i + 1, st, currentDepth, w, env)
    ELSE Bind(Awaited(env, getFileInfo(PathJoin(dirPath, entries[i]), env, st.cur)),
              LAMBDA got :
         IF got.outcome.kind = "throw"
         THEN [results |-> st.results, cur |-> got.cur]
         ELSE IF IsTraversed(got.outcome.value, w.pattern)
         THEN IF w.recursive
              THEN Bind(Awaited(env, walkDirectory(PathJoin(dirPath, entries[i]),
                                     [results |-> Append(st.results, got.outcome.value),
                                      cur |-> got.cur],
                                     currentDepth + 1, w, env)),
                        LAMBDA walked :
                        WalkEntries(dirPath, entries, i + 1, walked, currentDepth, w, env))
              ELSE WalkEntries(dirPath, entries, i + 1,
                               [results |-> Append(st.results, got.outcome.value),
                                cur |-> got.cur],
                               currentDepth, w, env)
         ELSE IF /\ w.pattern # Undefined
                 /\ w.pattern[1] # <<>>
                 /\ ~matchesPattern(got.outcome.value.name, w.pattern[1])
         THEN WalkEntries(dirPath, entries, i + 1,
                          [results |-> st.results, cur |-> got.cur],
                          currentDepth, w, env)
         ELSE WalkEntries(dirPath, entries, i + 1,
                          [results |-> Append(st.results, got.outcome.value),
                           cur |-> got.cur],
                          currentDepth, w, env))

walkDirectory(dirPath, st, currentDepth, w, env) ==
    IF BeyondMaxDepth(currentDepth, w.maxDepth) THEN st
    ELSE Bind(Await(env, st.cur, IoCall("readdir", dirPath)), LAMBDA resumed :
         IF ~CanReaddir(WorldAt(env, resumed), dirPath)
         THEN [results |-> st.results, cur |-> resumed]
         ELSE WalkEntries(dirPath, WorldAt(env, resumed).dirs[dirPath], 1,
                          [results |-> st.results, cur |-> resumed],
                          currentDepth, w, env))

\* listFiles: the sorted listing, and the cursor of the call afterwards
listFiles(rootPath, options, env, cur) ==
    Bind(Awaited(env, loadIgnoreMatcher(rootPath, env, cur)), LAMBDA matcher :
    Bind(Awaited(env, walkDirectory(rootPath, [results |-> <<>>, cur |-> matcher.cur], 0,
                          [maxDepth |-> OrElse(options.maxDepth, DefaultMaxDepth),
                           recursive |-> OrElse(options.recursive, TRUE),
                           includeHidden |-> OrElse(options.includeHidden, FALSE),
                           pattern |-> options.pattern,
                           matcher |-> matcher.value,
                           basePath |-> rootPath],
                          env)),
         LAMBDA walked :
         [results |-> SortEntries(walked.results, 1, <<>>), cur |-> walked.cur]))

FailedToReadDirectory(rootPath, cause) ==
    [msg |-> "Failed to read directory", path |-> rootPath, cause |-> cause]

\* The matcher of getDirectoryTree: the one handed in, or the awaited
\* loadIgnoreMatcher(basePath)
TreeMatcher(matcher, basePath, env, cur) ==
    IF matcher = Undefined
    THEN Awaited(env, loadIgnoreMatcher(basePath, env, cur))
    ELSE [value |-> matcher[1], cur |-> cur]

\* getDirectoryTree and its loop over the entries, from entry i on. acc holds
\* the children array, the cursor of the call, and the error a child threw.
RECURSIVE getDirectoryTree(_, _, _, _, _, _, _)
RECURSIVE TreeChildren(_, _, _, _, _, _, _, _, _)
TreeChildren(rootPath, entries, i, acc, options, currentDepth, ignoreMatcher, basePath, env) ==
    IF i > Len(entries) THEN acc
    ELSE IF SkipsHidden(OrElse(options.includeHidden, FALSE), entries[i])
    THEN TreeChildren(rootPath, entries, i + 1, acc, options, currentDepth,
                      ignoreMatcher, basePath, env)
    ELSE IF Ignores(ignoreMatcher, Relative(basePath, PathJoin(rootPath, entries[i])))
    THEN TreeChildren(rootPath, entries, i + 1, acc, options, currentDepth,
                      ignoreMatcher, basePath, env)
    ELSE Bind(Awaited(env, getDirectoryTree(PathJoin(rootPath, entries[i]), options,
                                            currentDepth + 1, Some(ignoreMatcher),
                                            basePath, env, acc.cur)),
              LAMBDA child :
         IF child.outcome.kind = "throw"
         THEN [children |-> acc.children, cur |-> child.cur,
               error |-> Some(child.outcome.error)]
         ELSE TreeChildren(rootPath, entries, i + 1,
                           [children |-> Append(acc.children, child.outcome.value),
                            cur |-> child.cur, error |-> Undefined],
                           options, currentDepth, ignoreMatcher, basePath, env))

getDirectoryTree(rootPath, options, currentDepth, matcher, basePath, env, cur) ==
    Bind(TreeMatcher(matcher, basePath, env, cur), LAMBDA ignoreMatcher :
    Bind(Awaited(env, getFileInfo(rootPath, env, ignoreMatcher.cur)), LAMBDA got :
    IF got.outcome.kind = "throw"
    THEN got
    ELSE IF \/ ~got.outcome.value.isDirectory
            \/ currentDepth >= OrElse(options.maxDepth, DefaultMaxDepth)
    THEN got
    ELSE Bind(Await(env, got.cur, IoCall("readdir", rootPath)), LAMBDA resumed :
         IF ~CanReaddir(WorldAt(env, resumed), rootPath)
         THEN [outcome |-> Thrown(FailedToReadDirectory(rootPath,
                                      [msg |-> "readdir failed", path |-> rootPath])),
               cur |-> resumed]
         ELSE Bind(TreeChildren(rootPath, WorldAt(env, resumed).dirs[rootPath], 1,
                                [children |-> <<>>, cur |-> resumed, error |-> Undefined],
                                options, currentDepth, ignoreMatcher.value, basePath, env),
                   LAMBDA kids :
                   IF kids.error # Undefined
                   THEN [outcome |-> Thrown(FailedToReadDirectory(rootPath, kids.error[1])),
                         cur |-> kids.cur]
                   ELSE [outcome |-> Returned(
                             [path |-> got.outcome.value.path,
                              name |-> got.outcome.value.name,
                              size |-> got.outcome.value.size,
                              isDirectory |-> got.outcome.value.isDirectory,
                              children |-> SortEntries(kids.children, 1, <<>>)]),
                         cur |-> kids.cur]))))

\* The loop of searchInDirectory over the listed files, from file i on: the
\* fs.readFile of searchInFile is awaited; a file that cannot be searched is
\* skipped
RECURSIVE SearchListed(_, _, _, _, _)
SearchListed(files, i, opts, env, st) ==
    IF i > Len(files) THEN st
    ELSE IF files[i].isDirectory THEN SearchListed(files, i + 1, opts, env, st)
    ELSE Bind(Await(env, st.cur, IoCall("readFile", files[i].path)), LAMBDA resumed :
         Bind(searchInFile(files[i].path, Lookup(WorldAt(env, resumed).fs, files[i].path),
                           opts, st.results),
              LAMBDA searched :
              SearchListed(files, i + 1, opts, env,
                           [results |-> IF searched.kind = "throw" THEN st.results
                                        ELSE searched.value,
                            cur |-> Yield(env, resumed)])))

\* searchInDirectory: the results array, and the cursor of the call afterwards
searchInDirectory(dirPath, opts, filePattern, maxDepth, st, env) ==
    Bind(Awaited(env, listFiles(dirPath,
                                [pattern |-> filePattern, maxDepth |-> maxDepth,
                                 recursive |-> Undefined, includeHidden |-> Undefined],
                                env, st.cur)),
         LAMBDA listed :
         SearchListed(listed.results, 1, opts, env,
                      [results |-> st.results, cur |-> listed.cur]))

\* A slip of the loop over the roots: the roots are searched last to first
RECURSIVE SearchRootsBackwards(_, _, _, _, _, _, _)
SearchRootsBackwards(rootPaths, i, opts, filePattern, maxDepth, st, env) ==
    IF i > Len(rootPaths) THEN st
    ELSE Bind(Awaited(env, searchInDirectory(rootPaths[Len(rootPaths) - i + 1], opts,
                                             filePattern, maxDepth, st, env)),
              LAMBDA searched :
              SearchRootsBackwards(rootPaths, i + 1, opts, filePattern, maxDepth,
                                   searched, env))

\* The loop of searchInFiles over the roots, from root i on
RECURSIVE SearchRoots(_, _, _, _, _, _, _)
SearchRoots(rootPaths, i, opts, filePattern, maxDepth, st, env) ==
    IF i > Len(rootPaths) THEN st
    ELSE Bind(Awaited(env, searchInDirectory(rootPaths[i], opts, filePattern, maxDepth,
                                             st, env)),
              LAMBDA searched :
              SearchRoots(rootPaths, i + 1, opts, filePattern, maxDepth, searched, env))

searchInFiles(rootPaths, options, env, cur) ==
    SearchRoots(rootPaths, 1,
                [query |-> options.query,
                 caseSensitive |-> OrElse(options.caseSensitive, FALSE),
                 wholeWord |-> OrElse(options.wholeWord, FALSE),
                 contextLines |-> OrElse(options.contextLines, DefaultContextLines)],
                options.filePattern, options.maxDepth,
                [results |-> <<>>, cur |-> cur], env)

\* The trees of the model under the root /a: d is absent, a file, a directory
\* (empty, with a file, with a file and a sub-directory, unreadable) or an
\* entry whose stat fails; f is a file; .h is a hidden directory with a file;
\* .gitignore holds the ignore rules
NameD == <<"d">>
NameF == <<"f">>
NameH == <<".", "h">>
WalkPath(names) == RootA \o <<Sep>> \o Join(names, Sep)
TextFile == FileNode(1, TRUE, <<"a">>)

DShapes == {"none", "file", "empty", "leaf", "deep", "broken", "unreadable", "dangling"}

\* The order in which fs.readdir returns the entries of a directory is
\* decided by the filesystem (by name, by creation, by a hash of the name):
\* any order of the entries of the root, and any order of the entries of /a/d
Orderings(names) ==
    { s \in [1..Len(names) -> {names[i] : i \in 1..Len(names)}] :
        \A i, j \in 1..Len(names) : s[i] = s[j] => i = j }

ReaddirOrders ==
    [root : Orderings(<<NameF, NameH, NameD, GitignoreName>>),
     inner : Orderings(<<NameF, NameD>>)]

\* The entries by the code units of their names, as a filesystem that keeps
\* the entries of a directory sorted returns them
NameOrder ==
    [root |-> <<GitignoreName, NameH, NameD, NameF>>, inner |-> <<NameD, NameF>>]

IgnoreFiles ==
    { Undefined,
      Some(<<"d">>),
      Some(<<"d", "/">>),
      Some(<<"#", "d", NL, NL, "d", "/", NL>>),
      Some(<<"f", NL, ".", "h">>) }

\* The nodes of a tree. In the shape "dangling" the root has an entry d whose
\* stat fails; in the shape "broken" the directory d has an entry f whose stat
\* fails next to the directory d/d
TreeNodes(dShape, hasF, hasH, ign) ==
    (IF hasF THEN {[path |-> WalkPath(<<NameF>>), node |-> TextFile]} ELSE {})
    \cup (IF hasH THEN {[path |-> WalkPath(<<NameH>>), node |-> DirOf(1)],
                        [path |-> WalkPath(<<NameH, NameF>>), node |-> TextFile]}
          ELSE {})
    \cup (IF ign # Undefined
          THEN {[path |-> WalkPath(<<GitignoreName>>),
                 node |-> FileNode(Len(ign[1]), TRUE, ign[1])]}
          ELSE {})
    \cup (IF dShape = "file" THEN {[path |-> WalkPath(<<NameD>>), node |-> TextFile]}
          ELSE IF dShape \in {"empty", "leaf", "deep", "broken", "unreadable"}
          THEN {[path |-> WalkPath(<<NameD>>),
                 node |-> DirOf(IF dShape \in {"deep", "broken"} THEN 2
                                ELSE IF dShape = "leaf" THEN 1 ELSE 0)]}
          ELSE {})
    \cup (IF dShape \in {"leaf", "deep"}
          THEN {[path |-> WalkPath(<<NameD, NameF>>), node |-> TextFile]}
          ELSE {})
    \cup (IF dShape \in {"deep", "broken"}
          THEN {[path |-> WalkPath(<<NameD, NameD>>),
                 node |-> DirOf(1)],
                [path |-> WalkPath(<<NameD, NameD, NameF>>), node |-> TextFile]}
          ELSE {})

\* What fs.readdir returns for each readable directory, under an order
TreeDirs(order, dShape, hasF, hasH, ign) ==
    {[path |-> RootA,
      entries |-> SelectSeq(order.root,
                    LAMBDA n : \/ n = NameF /\ hasF
                               \/ n = NameH /\ hasH
                               \/ n = NameD /\ dShape # "none"
                               \/ n = GitignoreName /\ ign # Undefined)]}
    \cup (IF hasH THEN {[path |-> WalkPath(<<NameH>>), entries |-> <<NameF>>]} ELSE {})
    \cup (IF dShape = "empty" THEN {[path |-> WalkPath(<<NameD>>), entries |-> <<>>]}
          ELSE IF dShape = "leaf"
          THEN {[path |-> WalkPath(<<NameD>>), entries |-> <<NameF>>]}
          ELSE IF dShape \in {"deep", "broken"}
          THEN {[path |-> WalkPath(<<NameD>>), entries |-> order.inner],
                [path |-> WalkPath(<<NameD, NameD>>), entries |-> <<NameF>>]}
          ELSE {})

WalkTree(order, dShape, hasF, hasH, ign) ==
    LET nodes == TreeNodes(dShape, hasF, hasH, ign)
        dirs == TreeDirs(order, dShape, hasF, hasH, ign)
    IN  [fs |-> [p \in {e.path : e \in nodes} |->
                    (CHOOSE e \in nodes : e.path = p).node],
         dirs |-> [p \in {e.path : e \in dirs} |->
                    (CHOOSE e \in dirs : e.path = p).entries]]

\* The entries two listings share stand in the same order in both
SameRelativeOrder(s, t) ==
    SelectSeq(s, LAMBDA n : \E i \in 1..Len(t) : t[i] = n)
        = SelectSeq(t, LAMBDA n : \E i \in 1..Len(s) : s[i] = n)

\* A tree that another may become: an entry that stays keeps its place among
\* those that stay
KeepsPlaces(tree, other) ==
    \A p \in DOMAIN tree.dirs \cap DOMAIN other.dirs :
        SameRelativeOrder(tree.dirs[p], other.dirs[p])

MaxDepthArg == 1

WalkOptions ==
    [recursive : {Undefined, Some(FALSE)},
     maxDepth : {Undefined} \cup {Some(n) : n \in 0..MaxDepthArg},
     includeHidden : {Undefined, Some(TRUE)},
     pattern : {Undefined, Some(<<"F">>), Some(<<"g", "*", "e">>)}]

SearchQuery == <<"a">>

DefaultWalkOptions ==
    [recursive |-> Undefined, maxDepth |-> Undefined, includeHidden |-> Undefined,
     pattern |-> Undefined]

\* The trees followed through a changing world: /a with f and d/f, with and
\* without an ignore file, under every order; and what such a tree may become
\* while a call is suspended: f deleted, d deleted, d replaced by a file, the
\* ignore file created (at any place among the entries) or deleted
RacingTrees ==
    { WalkTree(order, "leaf", TRUE, FALSE, Undefined) : order \in ReaddirOrders }

\* The paths whose metadata another request gets meanwhile
OtherCallPaths == { WalkPath(<<NameF>>), WalkPath(<<NameD, NameF>>) }

RacingTargets(tree) ==
    { t \in UNION { { WalkTree(order, "leaf", FALSE, FALSE, Undefined),
                     WalkTree(order, "none", TRUE, FALSE, Undefined),
                     WalkTree(order, "file", TRUE, FALSE, Undefined),
                     WalkTree(order, "leaf", TRUE, FALSE, Some(<<"d">>)),
                     WalkTree(order, "leaf", TRUE, FALSE, Undefined) } :
                   order \in ReaddirOrders } :
        KeepsPlaces(t, tree) }

\* The trees and options followed in a world that stands still. With the
\* entries in the order of their names: every tree with every depth,
\* recursion and hidden option, and with a name pattern the trees whose ignore
\* file is absent or holds the one rule 'd'. Under every order: the latter
\* trees with the default options, with a name pattern, with hidden entries
PatternIgnoreFiles == { Undefined, Some(<<"d">>) }

OrderOptions ==
    { DefaultWalkOptions,
      [DefaultWalkOptions EXCEPT !.pattern = Some(<<"F">>)],
      [DefaultWalkOptions EXCEPT !.includeHidden = Some(TRUE)] }

WalkCases ==
    { <<WalkTree(NameOrder, dShape, hasF, hasH, ign), o>> :
        dShape \in DShapes, hasF \in BOOLEAN, hasH \in BOOLEAN,
        ign \in IgnoreFiles, o \in {x \in WalkOptions : x.pattern = Undefined} }
    \cup
    { <<WalkTree(NameOrder, dShape, hasF, hasH, ign), o>> :
        dShape \in DShapes, hasF \in BOOLEAN, hasH \in BOOLEAN,
        ign \in PatternIgnoreFiles, o \in {x \in WalkOptions : x.pattern # Undefined} }
    \cup
    { <<WalkTree(order, dShape, hasF, hasH, ign), o>> :
        order \in ReaddirOrders,
        dShape \in DShapes, hasF \in BOOLEAN, hasH \in BOOLEAN,
        ign \in PatternIgnoreFiles, o \in OrderOptions }

\* The entries of the root of a tree stand in the order of their names
InNameOrder(tree) ==
    tree.dirs[RootA] = SelectSeq(NameOrder.root,
                                 LAMBDA n : \E i \in 1..Len(tree.dirs[RootA]) :
                                                tree.dirs[RootA][i] = n)

\* Either one of these in a world that stands still, or a racing tree with
\* the default options in a world that changes; each under either profile of
\* directory sizes. A race in which the tree changes, the longest to follow,
\* is followed with the entries in the order of their names
WalkInit ==
    /\ dirSize \in SizeProfiles
    /\ \/ /\ \E c \in WalkCases : wkEnv = c[1] /\ wkOpts = c[2]
          /\ envLeft = NoEnv
       \/ /\ wkEnv \in RacingTrees
          /\ wkOpts = DefaultWalkOptions
          /\ envLeft \in RacingBudgets
          /\ envLeft.changes > 0 => InNameOrder(wkEnv)
    /\ wkList = Pending
    /\ wkTree = Pending
    /\ wkSearch = Pending
    /\ ioLog = <<>>
    /\ cache = <<>>
    /\ maxSize = MetadataCap
    /\ now = 0
    /\ ret = NoCall
    /\ recency = <<>>
    /\ lastSet = [k \in Keys |-> -1]

WalkIdle ==
    /\ wkEnv = <<>>
    /\ wkOpts = <<>>
    /\ wkList = Pending
    /\ wkTree = Pending
    /\ wkSearch = Pending

\* A walker call is suspended at an await
WalkRunning == Running \in {wkList, wkTree, wkSearch}

\* The result of listFiles or searchInFiles, as the outcome of the call
AsReturned(r) == [outcome |-> Returned(r.results), cur |-> r.cur]

\* One segment of the listFiles call
ListFilesCall ==
    /\ \/ wkList = Running
       \/ wkList = Pending /\ wkTree = Pending /\ wkSearch = Pending
    /\ \E env \in {CallEnv(LogNow(wkEnv.fs, wkEnv.dirs), <<>>)} :
       \E p \in {Progress(AsReturned(listFiles(RootA, wkOpts, env, StartOf(env))))} :
           /\ wkList' = p.outcome
           /\ cache' = p.cache
           /\ ioLog' = env.log
    /\ UNCHANGED <<wkEnv, wkOpts, wkTree, wkSearch, maxSize, dirSize, now, ret, recency, lastSet,
                   envLeft>>

\* getDirectoryTree takes the options maxDepth and includeHidden, and
\* searchInFiles the options filePattern and maxDepth: each is called from the
\* cases that leave the options it does not take unset
TreeOptionsOnly == wkOpts.recursive = Undefined /\ wkOpts.pattern = Undefined
SearchOptionsOnly == wkOpts.recursive = Undefined /\ wkOpts.includeHidden = Undefined

\* One segment of the getDirectoryTree call
DirTreeCall ==
    /\ \/ wkTree = Running
       \/ wkList = Pending /\ wkTree = Pending /\ wkSearch = Pending /\ TreeOptionsOnly
    /\ \E env \in {CallEnv(LogNow(wkEnv.fs, wkEnv.dirs), <<>>)} :
       \E p \in {Progress(getDirectoryTree(RootA,
                              [maxDepth |-> wkOpts.maxDepth,
                               includeHidden |-> wkOpts.includeHidden],
                              0, Undefined, RootA, env, StartOf(env)))} :
           /\ wkTree' = p.outcome
           /\ cache' = p.cache
           /\ ioLog' = env.log
    /\ UNCHANGED <<wkEnv, wkOpts, wkList, wkSearch, maxSize, dirSize, now, ret, recency, lastSet,
                   envLeft>>

\* One segment of the searchInFiles call
SearchFilesCall ==
    /\ \/ wkSearch = Running
       \/ wkList = Pending /\ wkTree = Pending /\ wkSearch = Pending /\ SearchOptionsOnly
    /\ \E env \in {CallEnv(LogNow(wkEnv.fs, wkEnv.dirs), <<>>)} :
       \E p \in {Progress(AsReturned(searchInFiles(<<RootA>>,
                     [query |-> SearchQuery, filePattern |-> wkOpts.pattern,
                      caseSensitive |-> Undefined, wholeWord |-> Undefined,
                      contextLines |-> Undefined, maxDepth |-> wkOpts.maxDepth],
                     env, StartOf(env))))} :
           /\ wkSearch' = p.outcome
           /\ cache' = p.cache
           /\ ioLog' = env.log
    /\ UNCHANGED <<wkEnv, wkOpts, wkList, wkTree, maxSize, dirSize, now, ret, recency, lastSet,
                   envLeft>>

\* The tree changes while the call is suspended
WalkFsChange(tree) ==
    /\ WalkRunning
    /\ Spend("changes")
    /\ tree # wkEnv
    /\ wkEnv' = tree
    /\ UNCHANGED <<wkOpts, wkList, wkTree, wkSearch, cacheVars, dirSize, ioLog>>

----------------------------------------------------------------------------
(* Server: the CallToolRequestSchema handler of createServer               *)

\* The names of the registered tools
ToolNames == {"list_files", "search_files", "read_files", "dir_tree"}

PleaseRunDirTree ==
    [msg |-> "Please run 'dir_tree' on the configured root directories before using other tools."]
UnknownTool(name) == [msg |-> "Unknown tool", name |-> name]
ToolExecutionFailed == [msg |-> "Tool execution failed"]

\* A slip of the gate: any finished dir_tree call opens it
DirTreeRanAfterAnyOutcome(name, returned, ran) == name = "dir_tree" \/ ran

\* A slip of the gate: it follows the outcome of the last dir_tree call
DirTreeRanFollowsLastOutcome(name, returned, ran) ==
    IF name = "dir_tree" THEN returned ELSE ran

\* dirTreeRan after the handler of tool 'name' has returned or thrown
DirTreeRanAfter(name, returned, ran) ==
    IF returned /\ name = "dir_tree" THEN TRUE ELSE ran

\* Some dir_tree call of the server has returned
SomeDirTreeReturned(calls) ==
    \E i \in 1..Len(calls) : calls[i].name = "dir_tree" /\ calls[i].status = "returned"

\* The names that calls carry: the tools and a name no tool has
CallNames == {"dir_tree", "list_files", "search_files", "no_such_tool"}
MaxCalls == 4

ServerInit ==
    /\ srvDirTreeRan = FALSE
    /\ srvCalls = <<>>

ServerIdle ==
    /\ srvDirTreeRan = FALSE
    /\ srvCalls = <<>>

\* A tools/call request arrives: up to the await of tool.handler. Each call
\* records whether its handler was started and (history) whether a dir_tree
\* call had returned before.
CallArrives(name) ==
    /\ Len(srvCalls) < MaxCalls
    /\ srvCalls' = Append(srvCalls,
          IF name # "dir_tree" /\ ~srvDirTreeRan
          THEN [name |-> name, status |-> "thrown", error |-> PleaseRunDirTree,
                handlerRan |-> FALSE, doneBefore |-> SomeDirTreeReturned(srvCalls)]
          ELSE IF name \notin ToolNames
          THEN [name |-> name, status |-> "thrown", error |-> UnknownTool(name),
                handlerRan |-> FALSE, doneBefore |-> SomeDirTreeReturned(srvCalls)]
          ELSE [name |-> name, status |-> "running", error |-> Undefined,
                handlerRan |-> TRUE, doneBefore |-> SomeDirTreeReturned(srvCalls)])
    /\ UNCHANGED srvDirTreeRan

\* The handler of call i returns: the call resolves with its result
HandlerReturns(i) ==
    /\ srvCalls[i].status = "running"
    /\ srvDirTreeRan' = DirTreeRanAfter(srvCalls[i].name, TRUE, srvDirTreeRan)
    /\ srvCalls' = [srvCalls EXCEPT ![i].status = "returned"]

\* The handler of call i throws: the call rejects with 'Tool execution failed'
HandlerThrows(i) ==
    /\ srvCalls[i].status = "running"
    /\ srvDirTreeRan' = DirTreeRanAfter(srvCalls[i].name, FALSE, srvDirTreeRan)
    /\ srvCalls' = [srvCalls EXCEPT ![i].status = "thrown",
                                    ![i].error = ToolExecutionFailed]

----------------------------------------------------------------------------
(* Tool handlers: list_files, dir_tree, search_files                       *)

\* The candidates of a relative path: per root, in root order, the resolved
\* path when it lies within the root and the awaited pathExists finds it
RECURSIVE Candidates(_, _, _, _, _)
Candidates(path, roots, i, env, acc) ==
    IF i > Len(roots) THEN acc
    ELSE Bind(validatePathAccess(Normalize(Resolve(<<roots[i], path>>)), <<roots[i]>>),
              LAMBDA withinRoot :
         IF withinRoot.kind = "throw"
         THEN Candidates(path, roots, i + 1, env, acc)
         ELSE Bind(Awaited(env, pathExists(withinRoot.value, env, acc.cur)),
                   LAMBDA exists :
                   Candidates(path, roots, i + 1, env,
                              [value |-> IF exists.value
                                         THEN Append(acc.value, withinRoot.value)
                                         ELSE acc.value,
                               cur |-> exists.cur])))

\* pathsToList of the list_files and dir_tree handlers: the validated absolute
\* path, the candidates of a relative path, or the configured roots
PathsToList(path, roots, env, cur) ==
    IF path # Undefined /\ path[1] # <<>>
    THEN IF IsAbsolute(path[1])
         THEN Bind(validatePathAccess(path[1], roots), LAMBDA validated :
                   [outcome |-> IF validated.kind = "throw" THEN validated
                                ELSE Returned(<<validated.value>>),
                    cur |-> cur])
         ELSE Bind(Candidates(path[1], roots, 1, env, [value |-> <<>>, cur |-> cur]),
                   LAMBDA candidates :
                   [outcome |-> IF Len(candidates.value) = 0
                                THEN Thrown(NotFoundInRoots(path[1], roots))
                                ELSE Returned(candidates.value),
                    cur |-> candidates.cur])
    ELSE [outcome |-> Returned(roots), cur |-> cur]

\* parseInput of list_files
listFilesParseInput(input) ==
    [pattern |-> input.pattern,
     recursive |-> OrElse(input.recursive, TRUE),
     maxDepth |-> IF input.maxDepth = Undefined THEN DefaultMaxDepth
                  ELSE Max(1, input.maxDepth[1]),
     includeHidden |-> OrElse(input.includeHidden, FALSE),
     path |-> input.path]

\* The loop of the list_files handler over pathsToList, from path i on
RECURSIVE ListEachRoot(_, _, _, _, _)
ListEachRoot(paths, i, params, env, acc) ==
    IF i > Len(paths) THEN acc
    ELSE Bind(Awaited(env, listFiles(paths[i],
                                     [pattern |-> params.pattern,
                                      recursive |-> Some(params.recursive),
                                      maxDepth |-> Some(params.maxDepth),
                                      includeHidden |-> Some(params.includeHidden)],
                                     env, acc.cur)),
              LAMBDA listed :
              ListEachRoot(paths, i + 1, params, env,
                           [results |-> Append(acc.results,
                                               [root |-> paths[i],
                                                files |-> listed.results]),
                            cur |-> listed.cur]))

\* listFiles.handler (the tool): the parsed JSON of its text, or the error
listFilesHandler(input, env, cur) ==
    Bind(listFilesParseInput(input), LAMBDA params :
    Bind(PathsToList(params.path, env.roots, env, cur), LAMBDA pathsToList :
    IF pathsToList.outcome.kind = "throw"
    THEN pathsToList
    ELSE Bind(ListEachRoot(pathsToList.outcome.value, 1, params, env,
                           [results |-> <<>>, cur |-> pathsToList.cur]),
              LAMBDA done :
              [outcome |-> Returned(done.results), cur |-> done.cur])))

\* parseInput of dir_tree
dirTreeParseInput(input) ==
    [path |-> input.path,
     maxDepth |-> IF input.maxDepth = Undefined THEN DefaultMaxDepth
                  ELSE Max(1, input.maxDepth[1]),
     includeHidden |-> OrElse(input.includeHidden, FALSE)]

\* A slip of the dir_tree loop: the first failing root ends the batch
RECURSIVE TreeEachRootStopAtError(_, _, _, _, _)
TreeEachRootStopAtError(paths, i, params, env, acc) ==
    IF i > Len(paths) THEN acc
    ELSE Bind(Awaited(env, getDirectoryTree(paths[i],
                               [maxDepth |-> Some(params.maxDepth),
                                includeHidden |-> Some(params.includeHidden)],
                               0, Undefined, paths[i], env, acc.cur)),
              LAMBDA tree :
         IF tree.outcome.kind = "throw"
         THEN [results |-> Append(acc.results,
                                  [root |-> paths[i], error |-> tree.outcome.error]),
               cur |-> tree.cur]
         ELSE TreeEachRootStopAtError(paths, i + 1, params, env,
                   [results |-> Append(acc.results,
                                       [root |-> paths[i], tree |-> tree.outcome.value]),
                    cur |-> tree.cur]))

\* The loop of the dir_tree handler over pathsToList, from path i on
RECURSIVE TreeEachRoot(_, _, _, _, _)
TreeEachRoot(paths, i, params, env, acc) ==
    IF i > Len(paths) THEN acc
    ELSE Bind(Awaited(env, getDirectoryTree(paths[i],
                               [maxDepth |-> Some(params.maxDepth),
                                includeHidden |-> Some(params.includeHidden)],
                               0, Undefined, paths[i], env, acc.cur)),
              LAMBDA tree :
         TreeEachRoot(paths, i + 1, params, env,
              [results |-> Append(acc.results,
                    IF tree.outcome.kind = "throw"
                    THEN [root |-> paths[i], error |-> tree.outcome.error]
                    ELSE [root |-> paths[i], tree |-> tree.outcome.value]),
               cur |-> tree.cur]))

\* dirTree.handler: the parsed JSON of its text, or the error
dirTreeHandler(input, env, cur) ==
    Bind(dirTreeParseInput(input), LAMBDA params :
    Bind(PathsToList(params.path, env.roots, env, cur), LAMBDA pathsToList :
    IF pathsToList.outcome.kind = "throw"
    THEN pathsToList
    ELSE Bind(TreeEachRoot(pathsToList.outcome.value, 1, params, env,
                           [results |-> <<>>, cur |-> pathsToList.cur]),
              LAMBDA done :
              [outcome |-> Returned(done.results), cur |-> done.cur])))

MaxContextLines == 10
DefaultMaxResults == 100
MaxMaxResults == 1000
MaxShownPerFile == 5

Whitespace == {" ", NL}

\* String.prototype.trim
RECURSIVE Trim(_)
Trim(s) ==
    IF Len(s) = 0 THEN s
    ELSE IF Head(s) \in Whitespace THEN Trim(Tail(s))
    ELSE IF Last(s) \in Whitespace THEN Trim(Front(s))
    ELSE s

QueryRequired == [msg |-> "Query parameter is required and must be a non-empty string"]

\* parseInput of search_files
searchFilesParseInput(input) ==
    IF input.query = Undefined \/ Len(Trim(input.query[1])) = 0
    THEN Thrown(QueryRequired)
    ELSE Returned([
        query |-> Trim(input.query[1]),
        filePattern |-> input.filePattern,
        caseSensitive |-> OrElse(input.caseSensitive, FALSE),
        wholeWord |-> OrElse(input.wholeWord, FALSE),
        contextLines |-> IF input.contextLines = Undefined THEN DefaultContextLines
                         ELSE Max(0, Min(MaxContextLines, input.contextLines[1])),
        maxResults |-> IF input.maxResults = Undefined THEN DefaultMaxResults
                       ELSE Max(1, Min(MaxMaxResults, input.maxResults[1])),
        maxDepth |-> IF input.maxDepth = Undefined THEN Undefined
                     ELSE Some(Max(1, input.maxDepth[1]))])

\* groupResultsByFile: the Map as the sequence of its entries in insertion order
RECURSIVE GroupResultsByFile(_, _, _)
GroupResultsByFile(results, i, grouped) ==
    IF i > Len(results) THEN grouped
    ELSE LET at == {g \in 1..Len(grouped) : grouped[g].file = results[i].file} IN
         GroupResultsByFile(results, i + 1,
            IF at = {}
            THEN Append(grouped, [file |-> results[i].file, results |-> <<results[i]>>])
            ELSE [g \in 1..Len(grouped) |->
                    IF g \in at
                    THEN [file |-> grouped[g].file,
                          results |-> Append(grouped[g].results, results[i])]
                    ELSE grouped[g]])

\* formatSearchResults, as the data its text gives: the number of matches
\* found, and per file (in Map order) the displayed path, the number of its
\* matches and the matches shown (line, trimmed content, trimmed context)
formatSearchResults(results, rootPaths) ==
    LET grouped == GroupResultsByFile(results, 1, <<>>) IN
    [found |-> Len(results),
     files |-> [g \in 1..Len(grouped) |->
        [path |-> DisplayPath(grouped[g].file, grouped[g].file, rootPaths, 1),
         matches |-> Len(grouped[g].results),
         shown |-> [x \in 1..Min(MaxShownPerFile, Len(grouped[g].results)) |->
            LET r == grouped[g].results[x] IN
            [line |-> r.line, content |-> Trim(r.content),
             before |-> [n \in 1..Len(r.context.before) |-> Trim(r.context.before[n])],
             after |-> [n \in 1..Len(r.context.after) |-> Trim(r.context.after[n])]]]]]]

\* createSearchSummary, as the data its text gives (file types left out)
createSearchSummary(results, rootPaths, query, params) ==
    [query |-> query,
     caseSensitive |-> params.caseSensitive,
     wholeWord |-> params.wholeWord,
     totalMatches |-> Len(results),
     filesWithMatches |-> Len(GroupResultsByFile(results, 1, <<>>)),
     searchedIn |-> Len(rootPaths),
     filePattern |-> IF params.filePattern # Undefined /\ params.filePattern[1] # <<>>
                     THEN params.filePattern ELSE Undefined]

\* searchFiles.handler: the three parts of its text (limited is the 'Results
\* limited to' note), the matches searchInFiles found, the cursor afterwards
searchFilesHandler(input, env, cur) ==
    Bind(searchFilesParseInput(input), LAMBDA parsed :
    IF parsed.kind = "throw"
    THEN [outcome |-> parsed, found |-> <<>>, cur |-> cur]
    ELSE Bind(Awaited(env, searchInFiles(env.roots,
                            [query |-> parsed.value.query,
                             filePattern |-> parsed.value.filePattern,
                             caseSensitive |-> Some(parsed.value.caseSensitive),
                             wholeWord |-> Some(parsed.value.wholeWord),
                             contextLines |-> Some(parsed.value.contextLines),
                             maxDepth |-> parsed.value.maxDepth],
                            env, cur)),
              LAMBDA searched :
         Bind(Slice(searched.results, 0, parsed.value.maxResults),
              LAMBDA limitedResults :
              [outcome |-> Returned([
                   formatted |-> formatSearchResults(limitedResults, env.roots),
                   summary |-> createSearchSummary(limitedResults, env.roots,
                                                   parsed.value.query, parsed.value),
                   limited |-> IF Len(searched.results) > parsed.value.maxResults
                               THEN Some([max |-> parsed.value.maxResults,
                                          total |-> Len(searched.results)])
                               ELSE Undefined]),
               found |-> searched.results,
               cur |-> searched.cur])))

\* The filesystems of the tool calls: a tree under /a, and /b either
\* unreadable or holding one file with a match on every other line; /c does
\* not exist
RootC == <<"/", "c">>
ManyMatchLines == 11
ManyMatchFile ==
    LET content == Join([n \in 1..ManyMatchLines |->
                            IF n % 2 = 1 THEN <<"a">> ELSE <<>>], NL)
    IN  FileNode(Len(content), TRUE, content)

ToolTree(order, dShape, ign, bShape) ==
    LET t == WalkTree(order, dShape, TRUE, FALSE, ign) IN
    IF bShape = "leaf"
    THEN [fs |-> ((RootB \o <<Sep>> \o NameF) :> ManyMatchFile) @@ t.fs,
          dirs |-> (RootB :> <<NameF>>) @@ t.dirs]
    ELSE t

ToolShapes == {"leaf", "deep", "unreadable", "dangling"}
ToolIgnoreFiles == {Undefined, Some(NameF)}
ToolTrees ==
    { ToolTree(NameOrder, dShape, ign, bShape) :
        dShape \in ToolShapes, ign \in ToolIgnoreFiles,
        bShape \in {"leaf", "unreadable"} }

\* The same trees under every order in which readdir may report the entries
OrderedToolTrees ==
    { ToolTree(order, dShape, ign, "leaf") :
        order \in ReaddirOrders, dShape \in ToolShapes, ign \in ToolIgnoreFiles }

ToolRoots ==
    { <<RootA>>, <<RootA, RootB>>, <<RootC, RootB, RootA>> }

\* The path argument: absent, absolute inside a root, relative, absolute
\* outside every root, relative and nowhere to be found
PathArgs ==
    { Undefined, Some(WalkPath(<<NameD>>)), Some(NameD), Some(<<"/", "x">>),
      Some(<<"z">>) }

MaxResultsArg == 2

ListFilesInputs ==
    [path : PathArgs, pattern : {Undefined, Some(<<"F">>)},
     recursive : {Undefined, Some(FALSE)}, maxDepth : {Undefined, Some(0)},
     includeHidden : {Undefined}]

DirTreeInputs ==
    [path : PathArgs, maxDepth : {Undefined, Some(0), Some(2)},
     includeHidden : {Undefined, Some(TRUE)}]

SearchFilesInputs ==
    { i \in [query : {Undefined, Some(<<"a">>), Some(<<" ", "a", " ">>), Some(<<" ">>)},
             filePattern : {Undefined, Some(<<"F">>)},
             caseSensitive : {Undefined}, wholeWord : {Undefined},
             contextLines : {Undefined},
             maxResults : {Undefined} \cup {Some(n) : n \in 0..MaxResultsArg},
             maxDepth : {Undefined}] :
        i.filePattern # Undefined => i.query = Some(<<"a">>) }

\* Batches of read_files: a file, a relative path, a directory, a missing
\* file, a path outside the roots
BatchPaths ==
    { WalkPath(<<NameF>>), NameF, WalkPath(<<NameD>>), WalkPath(<<"z">>),
      <<"/", "x">> }
ReadBatchInputs ==
    { [path |-> Undefined, paths |-> Some(ps), startLine |-> Undefined,
       endLine |-> Undefined, showLineNumbers |-> Some(FALSE),
       maxFileSize |-> Undefined] :
        ps \in {<<p>> : p \in BatchPaths}
                 \cup {<<p, q>> : p \in BatchPaths, q \in BatchPaths}
                 \cup {<<WalkPath(<<"z">>), <<"/", "x">>, NameF>>} }

InputsOf(tool) ==
    IF tool = "list_files" THEN ListFilesInputs
    ELSE IF tool = "dir_tree" THEN DirTreeInputs
    ELSE IF tool = "search_files" THEN SearchFilesInputs
    ELSE ReadBatchInputs

\* The trees of the tool calls followed through a changing world: /a with f
\* and d/f, under every order
RacingToolTrees ==
    { WalkTree(order, "leaf", TRUE, FALSE, Undefined) : order \in ReaddirOrders }

\* The tool calls followed through a changing world
RacingToolInputs(tool) ==
    IF tool = "list_files"
    THEN {[path |-> pa, pattern |-> Undefined, recursive |-> Undefined,
           maxDepth |-> Undefined, includeHidden |-> Undefined] :
             pa \in {Undefined, Some(NameD)}}
    ELSE IF tool = "dir_tree"
    THEN {[path |-> pa, maxDepth |-> Undefined, includeHidden |-> Undefined] :
             pa \in {Undefined, Some(NameD)}}
    ELSE IF tool = "search_files"
    THEN {[query |-> Some(<<"a">>), filePattern |-> Undefined, caseSensitive |-> Undefined,
           wholeWord |-> Undefined, contextLines |-> Undefined, maxResults |-> Undefined,
           maxDepth |-> Undefined]}
    ELSE {[path |-> Undefined, paths |-> Some(<<NameF, WalkPath(<<NameF>>)>>),
           startLine |-> Undefined, endLine |-> Undefined,
           showLineNumbers |-> Some(FALSE), maxFileSize |-> Undefined]}

\* search_files, whose calls take the most steps, is followed through a clock
\* tick and a change of the tree together with the entries in the order of
\* their names
LongRace(tool, budget) ==
    tool = "search_files" /\ budget.ticks > 0 /\ budget.changes > 0

HandlersInit ==
    /\ thTool \in ToolNames
    /\ dirSize \in SizeProfiles
    /\ \/ /\ ctxRoots \in ToolRoots
          /\ wkEnv \in ToolTrees
          /\ thInput \in InputsOf(thTool)
          /\ envLeft = NoEnv
       \/ /\ ctxRoots = <<RootA, RootB>>
          /\ wkEnv \in OrderedToolTrees
          /\ thInput \in RacingToolInputs(thTool)
          /\ envLeft = NoEnv
       \/ /\ ctxRoots = <<RootA>>
          /\ wkEnv \in RacingToolTrees
          /\ thInput \in RacingToolInputs(thTool)
          /\ envLeft \in RacingBudgets
          /\ LongRace(thTool, envLeft) => InNameOrder(wkEnv)
    /\ thOutcome = Pending
    /\ thFound = <<>>
    /\ ioLog = <<>>
    /\ fsFiles = <<>>
    /\ rfInput = <<>>
    /\ rfOutcome = Pending
    /\ rfTrace = <<>>
    /\ wkOpts = <<>>
    /\ wkList = Pending
    /\ wkTree = Pending
    /\ wkSearch = Pending
    /\ cache = <<>>
    /\ maxSize = MetadataCap
    /\ now = 0
    /\ ret = NoCall
    /\ recency = <<>>
    /\ lastSet = [k \in Keys |-> -1]

HandlersIdle ==
    /\ thTool = "none"
    /\ thInput = <<>>
    /\ thOutcome = Pending
    /\ thFound = <<>>

\* The context of a tool call and the worlds its segments have seen so far
ToolEnv == CallEnv(LogNow(wkEnv.fs, wkEnv.dirs), ctxRoots)

\* One segment of the list_files handler
ListFilesTool ==
    /\ thTool = "list_files" /\ thOutcome \in {Pending, Running}
    /\ \E env \in {ToolEnv} :
       \E p \in {Progress(listFilesHandler(thInput, env, StartOf(env)))} :
           /\ thOutcome' = p.outcome
           /\ cache' = p.cache
           /\ ioLog' = env.log
    /\ UNCHANGED <<thTool, thInput, thFound, wkEnv, now, envLeft>>

\* One segment of the dir_tree handler
DirTreeTool ==
    /\ thTool = "dir_tree" /\ thOutcome \in {Pending, Running}
    /\ \E env \in {ToolEnv} :
       \E p \in {Progress(dirTreeHandler(thInput, env, StartOf(env)))} :
           /\ thOutcome' = p.outcome
           /\ cache' = p.cache
           /\ ioLog' = env.log
    /\ UNCHANGED <<thTool, thInput, thFound, wkEnv, now, envLeft>>

\* One segment of the search_files handler
SearchFilesTool ==
    /\ thTool = "search_files" /\ thOutcome \in {Pending, Running}
    /\ \E env \in {ToolEnv} :
       \E h \in {searchFilesHandler(thInput, env, StartOf(env))} :
       \E p \in {Progress(h)} :
           /\ thOutcome' = p.outcome
           /\ thFound' = IF p.done THEN h.found ELSE thFound
           /\ cache' = p.cache
           /\ ioLog' = env.log
    /\ UNCHANGED <<thTool, thInput, wkEnv, now, envLeft>>

\* One segment of the read_files handler
ReadFilesTool ==
    /\ thTool = "read_files" /\ thOutcome \in {Pending, Running}
    /\ \E env \in {ToolEnv} :
       \E p \in {Progress(readFilesHandler(thInput, env, StartOf(env)))} :
           /\ thOutcome' = p.outcome
           /\ cache' = p.cache
           /\ ioLog' = env.log
    /\ UNCHANGED <<thTool, thInput, thFound, wkEnv, now, envLeft>>

\* The tree changes while the handler is suspended
ToolFsChange(tree) ==
    /\ thOutcome = Running
    /\ Spend("changes")
    /\ tree # wkEnv
    /\ wkEnv' = tree
    /\ UNCHANGED <<thTool, thInput, thOutcome, thFound, cache, now, ioLog>>

----------------------------------------------------------------------------
(* getFileInfo on a filesystem that changes                                *)

\* The filesystem of the getFileInfo calls: /a/f is missing or a file of size
\* 1 or 2, /a/d is missing or an empty directory; both change at any time
InfoPaths == { WalkPath(<<NameF>>), WalkPath(<<NameD>>) }
InfoNodes(p) ==
    IF p = WalkPath(<<NameF>>)
    THEN {MissingNode, FileNode(1, TRUE, <<"a">>), FileNode(2, TRUE, <<"a", "a">>)}
    ELSE {MissingNode, DirOf(0)}

\* The filesystem with path p now holding node (or nothing)
WithNode(fs, p, node) ==
    [q \in (DOMAIN fs \ {p}) \cup (IF node = MissingNode THEN {} ELSE {p}) |->
        IF q = p THEN node ELSE fs[q]]

NoInfoCall == [op |-> "none", outcome |-> Pending]
NeverStatted == [at |-> -1]

FileInfoInit ==
    /\ fsFiles \in { WithNode(WithNode(<<>>, WalkPath(<<NameF>>), nf),
                              WalkPath(<<NameD>>), nd) :
                        nf \in InfoNodes(WalkPath(<<NameF>>)),
                        nd \in InfoNodes(WalkPath(<<NameD>>)) }
    /\ cache = <<>>
    /\ maxSize \in 0..MetadataCap
    /\ now = 0
    /\ ret = NoCall
    /\ recency = <<>>
    /\ lastSet = [k \in Keys |-> -1]
    /\ ctxRoots = <<>>
    /\ rfInput = <<>>
    /\ rfOutcome = Pending
    /\ rfTrace = <<>>
    /\ giCall = NoInfoCall
    /\ giLastStat = [p \in InfoPaths |-> NeverStatted]
    /\ giOther = Undefined
    /\ ioLog = <<>>
    /\ envLeft = [NoEnv EXCEPT !.others = MaxOtherCalls]

FileInfoIdle ==
    /\ giCall = NoInfoCall
    /\ giLastStat = <<>>
    /\ giOther = Undefined

InfoCallRunning == giCall.outcome = Running

\* One segment of a call of getFileInfo(p): the call up to its return or to
\* the await of fs.stat, or the rest of the call it is suspended in. giCall
\* keeps the path, the outcome and the stat calls made; ioLog keeps the world
\* at the call and the world when the stat call completed; giLastStat keeps,
\* for each path, when the last stat call that succeeded was made, when it
\* completed, and its result, for as long as that result can be returned:
\* while the cache holds an entry of the path, or the call has just ended. Of
\* two calls in flight at once this is the one followed; the other is the call
\* of InfoOtherStarts
Remembered(stats, entries, ended) ==
    [q \in InfoPaths |->
        IF q \in ended \/ HasKey(entries, q) THEN stats[q] ELSE NeverStatted]

GetFileInfoCall(p) ==
    /\ InfoCallRunning => p = giCall.path
    /\ \E env \in {CallEnv(IF InfoCallRunning THEN LogNow(fsFiles, <<>>)
                           ELSE LogFromNow(fsFiles, <<>>), <<>>)} :
       \E got \in {Progress(getFileInfo(p, env, StartOf(env)))} :
          /\ cache' = got.cache
          /\ ioLog' = env.log
          /\ giCall' = [op |-> "getFileInfo", path |-> p, outcome |-> got.outcome,
                        stats |-> got.trace]
          /\ giLastStat' =
                Remembered(IF got.done /\ got.trace # <<>> /\ got.outcome.kind = "return"
                           THEN [giLastStat EXCEPT ![p] = [made |-> env.log[1].now,
                                                          at |-> now,
                                                          info |-> got.outcome.value]]
                           ELSE giLastStat,
                           got.cache, IF got.done THEN {p} ELSE {})
    /\ UNCHANGED <<fsFiles, maxSize, dirSize, now, ret, recency, lastSet,
                   ctxRoots, rfInput, rfOutcome, rfTrace, envLeft, giOther>>

\* The call that has returned or thrown is forgotten, with its log, when the
\* world moves on
CallAfter == IF InfoCallRunning THEN giCall ELSE NoInfoCall
LogAfter == IF InfoCallRunning THEN ioLog ELSE <<>>

\* A file is created, rewritten or deleted, between two calls or while a
\* call awaits fs.stat
FsChange(p, node) ==
    /\ Lookup(fsFiles, p) # node
    /\ fsFiles' = WithNode(fsFiles, p, node)
    /\ giCall' = CallAfter
    /\ ioLog' = LogAfter
    /\ giLastStat' = Remembered(giLastStat, cache, {})
    /\ UNCHANGED <<cache, maxSize, dirSize, now, ret, recency, lastSet,
                   giOther, ctxRoots, rfInput, rfOutcome, rfTrace, envLeft>>

\* Time passes, between two calls or while a call awaits fs.stat
InfoTick ==
    /\ now < MaxTime
    /\ ClockAdvances
    /\ giCall' = CallAfter
    /\ ioLog' = LogAfter
    /\ giLastStat' = Remembered(giLastStat, cache, {})
    /\ UNCHANGED <<giOther, fsFiles, ctxRoots, rfInput, rfOutcome, rfTrace, envLeft>>

\* clearFileInfoCache() is called, between two calls or while a call awaits
\* fs.stat
InfoClear ==
    /\ cache # <<>>
    /\ clearFileInfoCache
    /\ giCall' = CallAfter
    /\ ioLog' = LogAfter
    /\ giLastStat' = Remembered(giLastStat, <<>>, {})
    /\ UNCHANGED <<giOther, fsFiles, ctxRoots, rfInput, rfOutcome, rfTrace, envLeft>>

\* Another request calls getFileInfo(p), between two calls or while a call
\* awaits fs.stat: a hit returns at once, a miss awaits fs.stat
InfoOtherStarts(p) ==
    /\ OtherCallStarts(p)
    /\ giOther' = IF LRUGet(cache, p, now).branch = "hit" THEN Undefined ELSE Some(now)
    /\ giCall' = CallAfter
    /\ ioLog' = LogAfter
    /\ giLastStat' = Remembered(giLastStat, LRUGet(cache, p, now).cache, {})
    /\ UNCHANGED <<fsFiles, ctxRoots, rfInput, rfOutcome, rfTrace>>

\* The fs.stat of the other request completes, at any time after: the call
\* throws, or stores its FileInfo and returns it
InfoOtherCompletes ==
    /\ OtherCallCompletes(fsFiles)
    /\ \E p \in {envLeft.awaiting[1]} :
       \E node \in {Lookup(fsFiles, p)} :
           giLastStat' =
               IF node.kind = "missing" THEN giLastStat
               ELSE Remembered([giLastStat EXCEPT ![p] = [made |-> giOther[1], at |-> now,
                                                         info |-> FileInfoOf(p, node)]],
                               LRUSet(cache, p, FileInfoOf(p, node), now, maxSize, Ttl).cache,
                               {})
    /\ giOther' = Undefined
    /\ giCall' = CallAfter
    /\ ioLog' = LogAfter
    /\ UNCHANGED <<fsFiles, ctxRoots, rfInput, rfOutcome, rfTrace>>

----------------------------------------------------------------------------
(* The ignore file over a sequence of calls on one root                    *)

MaxWalkCalls == 3

\* The root /a with f and d/f, under each ignore file
MatcherIgnoreFiles == { Undefined, Some(<<"d">>), Some(<<"f", NL, ".", "h">>) }
MatcherTrees ==
    { WalkTree(order, "leaf", TRUE, FALSE, ign) :
        order \in ReaddirOrders, ign \in MatcherIgnoreFiles }

MatcherInit ==
    /\ wkEnv \in MatcherTrees
    /\ wkOpts = DefaultWalkOptions
    /\ wkList = Pending
    /\ wkTree = Pending
    /\ wkSearch = Pending
    /\ cache = <<>>
    /\ maxSize = MetadataCap
    /\ now = 0
    /\ ret = NoCall
    /\ recency = <<>>
    /\ lastSet = [k \in Keys |-> -1]
    /\ igLog = <<>>
    /\ ioLog = <<>>
    /\ envLeft = [NoEnv EXCEPT !.changes = MaxChanges]

MatcherIdle == igLog = <<>>

\* The reads of the ignore file of the root /a among the calls of a trace
IgnoreFileReads(trace) ==
    SelectSeq(trace, LAMBDA io : io = IoCall("readFile", PathJoin(RootA, GitignoreName)))

\* One entry of the log: the call, its reads of the ignore file, the rules
\* its matcher held (those its first await, of loadIgnoreMatcher, gave it)
LogEntry(call, trace, env) ==
    [call |-> call, reads |-> IgnoreFileReads(trace),
     rules |-> loadIgnoreMatcher(RootA, env, StartOf(env)).value]

\* A call may start when none is in progress
MayStart == ~WalkRunning /\ Len(igLog) < MaxWalkCalls

\* The log of the call: of the call in progress, or of a call that starts
MatcherLog(running) ==
    IF running THEN LogNow(wkEnv.fs, wkEnv.dirs) ELSE LogFromNow(wkEnv.fs, wkEnv.dirs)

\* One segment of a listFiles call
MatcherListFiles ==
    /\ wkList = Running \/ MayStart
    /\ \E env \in {CallEnv(MatcherLog(wkList = Running), <<>>)} :
       \E p \in {Progress(AsReturned(listFiles(RootA, wkOpts, env, StartOf(env))))} :
           /\ wkList' = p.outcome
           /\ cache' = p.cache
           /\ ioLog' = env.log
           /\ igLog' = IF p.done THEN Append(igLog, LogEntry("listFiles", p.trace, env))
                       ELSE igLog
    /\ UNCHANGED <<wkEnv, wkOpts, wkTree, wkSearch, maxSize, dirSize, now, ret, recency, lastSet,
                   envLeft>>

\* One segment of a getDirectoryTree call
MatcherDirTree ==
    /\ wkTree = Running \/ MayStart
    /\ \E env \in {CallEnv(MatcherLog(wkTree = Running), <<>>)} :
       \E p \in {Progress(getDirectoryTree(RootA,
                              [maxDepth |-> wkOpts.maxDepth,
                               includeHidden |-> wkOpts.includeHidden],
                              0, Undefined, RootA, env, StartOf(env)))} :
           /\ wkTree' = p.outcome
           /\ cache' = p.cache
           /\ ioLog' = env.log
           /\ igLog' = IF p.done
                       THEN Append(igLog, LogEntry("getDirectoryTree", p.trace, env))
                       ELSE igLog
    /\ UNCHANGED <<wkEnv, wkOpts, wkList, wkSearch, maxSize, dirSize, now, ret, recency, lastSet,
                   envLeft>>

\* One segment of a searchInFiles call
MatcherSearch ==
    /\ wkSearch = Running \/ MayStart
    /\ \E env \in {CallEnv(MatcherLog(wkSearch = Running), <<>>)} :
       \E p \in {Progress(AsReturned(searchInFiles(<<RootA>>,
                     [query |-> SearchQuery, filePattern |-> Undefined,
                      caseSensitive |-> Undefined, wholeWord |-> Undefined,
                      contextLines |-> Undefined, maxDepth |-> Undefined],
                     env, StartOf(env))))} :
           /\ wkSearch' = p.outcome
           /\ cache' = p.cache
           /\ ioLog' = env.log
           /\ igLog' = IF p.done
                       THEN Append(igLog, LogEntry("searchInFiles", p.trace, env))
                       ELSE igLog
    /\ UNCHANGED <<wkEnv, wkOpts, wkList, wkTree, maxSize, dirSize, now, ret, recency, lastSet,
                   envLeft>>

\* The ignore file of the root is rewritten, created or deleted, between two
\* calls or while a call is suspended
MatcherRewrite(tree) ==
    /\ Len(igLog) < MaxWalkCalls
    /\ Spend("changes")
    /\ tree # wkEnv
    /\ KeepsPlaces(tree, wkEnv)
    /\ wkEnv' = tree
    /\ UNCHANGED <<wkOpts, wkList, wkTree, wkSearch, cacheVars, dirSize, igLog, ioLog>>

----------------------------------------------------------------------------
(* resolveFilePath of read_files on relative paths                         *)

FileY == <<"/", "y">>

\* Relative paths: found in a root, leaving a root for its sibling, leaving
\* every root, below the filesystem root, a directory of the filesystem root
RelativePaths ==
    { <<"y">>, <<".", ".", "/", "b", "/", "y">>, <<".", ".", "/", "x">>,
      <<"a", "/", "y">>, <<"a">> }

ResolveRoots ==
    { <<RootA, RootB>>, <<RootB, RootA>>, <<RootA>>, <<<<"/">>>>, <<RootB, <<"/">>>> }

ResolveFilesystems ==
    { [p \in {FileAY, FileBY, FileY} |->
          IF p = FileAY THEN ay ELSE IF p = FileBY THEN by ELSE y] :
      ay \in {MissingNode, FileNode(1, TRUE, <<"y">>)},
      by \in {MissingNode, FileNode(1, TRUE, <<"y">>)},
      y \in {MissingNode, DirOf(0)} }

ResolveInit ==
    /\ ctxRoots \in ResolveRoots
    /\ fsFiles \in ResolveFilesystems
    /\ rfInput \in RelativePaths
    /\ rfOutcome = Pending
    /\ rfTrace = <<>>
    /\ ioLog = <<>>
    /\ envLeft \in {NoEnv, [NoEnv EXCEPT !.changes = MaxChanges]}

\* One segment of the resolveFilePath call
ResolveCall ==
    /\ rfOutcome \in {Pending, Running}
    /\ \E env \in {CallEnv(LogNow(fsFiles, <<>>), ctxRoots)} :
       \E p \in {Progress(resolveFilePath(rfInput, ctxRoots, env, StartOf(env)))} :
           /\ rfOutcome' = p.outcome
           /\ rfTrace' = p.trace
           /\ ioLog' = env.log
    /\ UNCHANGED <<ctxRoots, fsFiles, rfInput, envLeft>>

\* A file is created or deleted while the call awaits fs.access
ResolveFsChange(p, node) ==
    /\ rfOutcome = Running
    /\ Spend("changes")
    /\ fsFiles[p] # node
    /\ fsFiles' = [fsFiles EXCEPT ![p] = node]
    /\ UNCHANGED <<ctxRoots, rfInput, rfOutcome, rfTrace, ioLog>>

----------------------------------------------------------------------------
(* Specifications                                                          *)

PathSpecInit == PlatformIdle /\ PathInit /\ CacheIdle /\ ReadIdle /\ ToolIdle /\ WalkIdle /\ SearchIdle /\ ServerIdle /\ HandlersIdle /\ FileInfoIdle /\ MatcherIdle /\ AwaitIdle

PathNext == ValidatePath /\ UNCHANGED <<cacheVars, dirSize, readVars, toolVars, walkVars, searchVars, serverVars, handlerVars, infoVars, matcherVars, awaitVars>>

SpecPath == PathSpecInit /\ [][PathNext]_vars

CacheSpecInit == PlatformIdle /\ CacheInit /\ PathIdle /\ ReadIdle /\ ToolIdle /\ WalkIdle /\ SearchIdle /\ ServerIdle /\ HandlersIdle /\ FileInfoIdle /\ MatcherIdle /\ AwaitIdle

CacheGet == \E k \in Keys : Get(k) /\ UNCHANGED <<pathVars, readVars, toolVars, walkVars, searchVars, serverVars, handlerVars, infoVars, matcherVars, awaitVars>>
CacheSet == \E k \in Keys, v \in Values : Set(k, v) /\ UNCHANGED <<pathVars, readVars, toolVars, walkVars, searchVars, serverVars, handlerVars, infoVars, matcherVars, awaitVars>>
CacheClear == Clear /\ UNCHANGED <<pathVars, readVars, toolVars, walkVars, searchVars, serverVars, handlerVars, infoVars, matcherVars, awaitVars>>
CacheTick == Tick /\ UNCHANGED <<pathVars, readVars, toolVars, walkVars, searchVars, serverVars, handlerVars, infoVars, matcherVars, awaitVars>>

CacheNext == CacheGet \/ CacheSet \/ CacheClear \/ CacheTick

SpecCache == CacheSpecInit /\ [][CacheNext]_vars

ReadSpecInit == PlatformIdle /\ ReadInit /\ PathIdle /\ CacheIdle /\ ToolIdle /\ WalkIdle /\ SearchIdle /\ ServerIdle /\ HandlersIdle /\ FileInfoIdle /\ MatcherIdle /\ AwaitIdle

ReadNext == ReadContent /\ UNCHANGED <<pathVars, cacheVars, dirSize, toolVars, walkVars, searchVars, serverVars, handlerVars, infoVars, matcherVars, awaitVars>>

SpecRead == ReadSpecInit /\ [][ReadNext]_vars

ReadFilesSpecInit == ReadFilesInit /\ PathIdle /\ ReadIdle /\ WalkIdle /\ SearchIdle /\ ServerIdle /\ HandlersIdle /\ FileInfoIdle /\ MatcherIdle

ReadFilesFrame ==
    UNCHANGED <<pathVars, readVars, walkVars, searchVars, serverVars, handlerVars,
                infoVars, matcherVars>>

ReadFilesStep == ReadFilesCall /\ ReadFilesFrame
ReadFilesTick ==
    /\ rfOutcome = Running
    /\ Spend("ticks")
    /\ ClockAdvances
    /\ UNCHANGED <<toolVars, ioLog>>
    /\ ReadFilesFrame
ReadFilesClear ==
    /\ rfOutcome = Running
    /\ Spend("clears")
    /\ clearFileInfoCache
    /\ UNCHANGED <<toolVars, ioLog>>
    /\ ReadFilesFrame
ReadFilesChange ==
    \E node \in ChangedStates : ReadFilesFsChange(FileAX, node) /\ ReadFilesFrame
ReadFilesOtherStarts ==
    /\ rfOutcome = Running
    /\ \E p \in {FileAX, FileAY} : OtherCallStarts(p)
    /\ UNCHANGED <<toolVars, ioLog>>
    /\ ReadFilesFrame
ReadFilesOtherCompletes ==
    /\ rfOutcome = Running
    /\ OtherCallCompletes(fsFiles)
    /\ UNCHANGED <<toolVars, ioLog>>
    /\ ReadFilesFrame

ReadFilesNext ==
    ReadFilesStep \/ ReadFilesTick \/ ReadFilesClear \/ ReadFilesChange
        \/ ReadFilesOtherStarts \/ ReadFilesOtherCompletes

SpecReadFiles == ReadFilesSpecInit /\ [][ReadFilesNext]_vars

WalkSpecInit == WalkInit /\ PathIdle /\ ReadIdle /\ ToolIdle /\ SearchIdle /\ ServerIdle /\ HandlersIdle /\ FileInfoIdle /\ MatcherIdle

WalkFrame ==
    UNCHANGED <<pathVars, readVars, toolVars, searchVars, serverVars, handlerVars,
                infoVars, matcherVars>>

WalkList == ListFilesCall /\ WalkFrame
WalkDirTree == DirTreeCall /\ WalkFrame
WalkSearch == SearchFilesCall /\ WalkFrame
WalkTick ==
    /\ WalkRunning
    /\ Spend("ticks")
    /\ ClockAdvances
    /\ UNCHANGED <<walkVars, ioLog>>
    /\ WalkFrame
WalkClear ==
    /\ WalkRunning
    /\ Spend("clears")
    /\ clearFileInfoCache
    /\ UNCHANGED <<walkVars, ioLog>>
    /\ WalkFrame
WalkChange ==
    /\ WalkRunning /\ envLeft.changes > 0
    /\ \E tree \in RacingTargets(wkEnv) : WalkFsChange(tree) /\ WalkFrame
WalkOtherStarts ==
    /\ WalkRunning
    /\ \E p \in OtherCallPaths : OtherCallStarts(p)
    /\ UNCHANGED <<walkVars, ioLog>>
    /\ WalkFrame
WalkOtherCompletes ==
    /\ WalkRunning
    /\ OtherCallCompletes(wkEnv.fs)
    /\ UNCHANGED <<walkVars, ioLog>>
    /\ WalkFrame

WalkNext ==
    WalkList \/ WalkDirTree \/ WalkSearch \/ WalkTick \/ WalkClear \/ WalkChange
        \/ WalkOtherStarts \/ WalkOtherCompletes

SpecWalk == WalkSpecInit /\ [][WalkNext]_vars

SearchSpecInit == PlatformIdle /\ SearchInit /\ PathIdle /\ CacheIdle /\ ReadIdle /\ ToolIdle /\ WalkIdle /\ ServerIdle /\ HandlersIdle /\ FileInfoIdle /\ MatcherIdle /\ AwaitIdle

SearchNext ==
    SearchInFileCall /\ UNCHANGED <<pathVars, cacheVars, dirSize, readVars, toolVars, walkVars, serverVars, handlerVars, infoVars, matcherVars, awaitVars>>

SpecSearch == SearchSpecInit /\ [][SearchNext]_vars

ServerSpecInit ==
    PlatformIdle /\ ServerInit /\ PathIdle /\ CacheIdle /\ ReadIdle /\ ToolIdle /\ WalkIdle /\ SearchIdle
        /\ HandlersIdle /\ FileInfoIdle /\ MatcherIdle /\ AwaitIdle

ServerCall ==
    \E name \in CallNames :
        CallArrives(name)
            /\ UNCHANGED <<pathVars, cacheVars, dirSize, readVars, toolVars, walkVars, searchVars, handlerVars, infoVars, matcherVars, awaitVars>>
ServerReturn ==
    \E i \in 1..Len(srvCalls) :
        HandlerReturns(i)
            /\ UNCHANGED <<pathVars, cacheVars, dirSize, readVars, toolVars, walkVars, searchVars, handlerVars, infoVars, matcherVars, awaitVars>>
ServerThrow ==
    \E i \in 1..Len(srvCalls) :
        HandlerThrows(i)
            /\ UNCHANGED <<pathVars, cacheVars, dirSize, readVars, toolVars, walkVars, searchVars, handlerVars, infoVars, matcherVars, awaitVars>>

ServerNext == ServerCall \/ ServerReturn \/ ServerThrow

SpecServer == ServerSpecInit /\ [][ServerNext]_vars

\* The tools that answer a batch of roots or paths, entry by entry
BatchTools == {"list_files", "dir_tree", "read_files"}

HandlersSpecInit ==
    thTool \in BatchTools /\ HandlersInit /\ PathIdle /\ ReadIdle /\ SearchIdle /\ ServerIdle /\ FileInfoIdle /\ MatcherIdle

SearchToolSpecInit ==
    thTool = "search_files" /\ HandlersInit /\ PathIdle /\ ReadIdle /\ SearchIdle /\ ServerIdle /\ FileInfoIdle /\ MatcherIdle

HandlersFrame ==
    UNCHANGED <<pathVars, readVars, toolVars, wkOpts, wkList, wkTree, wkSearch, searchVars,
                serverVars, infoVars, matcherVars, maxSize, dirSize, ret, recency, lastSet>>

HandlersList == ListFilesTool /\ HandlersFrame
HandlersTree == DirTreeTool /\ HandlersFrame
HandlersSearch == SearchFilesTool /\ HandlersFrame
HandlersRead == ReadFilesTool /\ HandlersFrame
HandlersTick ==
    /\ thOutcome = Running
    /\ Spend("ticks")
    /\ ClockAdvances
    /\ UNCHANGED <<handlerVars, wkEnv, ioLog>>
    /\ HandlersFrame
HandlersClear ==
    /\ thOutcome = Running
    /\ Spend("clears")
    /\ clearFileInfoCache
    /\ UNCHANGED <<handlerVars, wkEnv, ioLog>>
    /\ HandlersFrame
HandlersChange ==
    /\ thOutcome = Running /\ envLeft.changes > 0
    /\ \E tree \in RacingTargets(wkEnv) : ToolFsChange(tree) /\ HandlersFrame
HandlersOtherStarts ==
    /\ thOutcome = Running
    /\ \E p \in OtherCallPaths : OtherCallStarts(p)
    /\ UNCHANGED <<handlerVars, wkEnv, ioLog>>
    /\ HandlersFrame
HandlersOtherCompletes ==
    /\ thOutcome = Running
    /\ OtherCallCompletes(wkEnv.fs)
    /\ UNCHANGED <<handlerVars, wkEnv, ioLog>>
    /\ HandlersFrame

HandlersNext ==
    HandlersList \/ HandlersTree \/ HandlersRead
        \/ HandlersTick \/ HandlersClear \/ HandlersChange
        \/ HandlersOtherStarts \/ HandlersOtherCompletes

SpecHandlers == HandlersSpecInit /\ [][HandlersNext]_vars

SearchToolNext ==
    HandlersSearch
        \/ HandlersTick \/ HandlersClear \/ HandlersChange
        \/ HandlersOtherStarts \/ HandlersOtherCompletes

SpecSearchTool == SearchToolSpecInit /\ [][SearchToolNext]_vars

FileInfoSpecInit ==
    PlatformInit /\ FileInfoInit /\ PathIdle /\ ReadIdle /\ WalkIdle /\ SearchIdle /\ ServerIdle /\ HandlersIdle /\ MatcherIdle

FileInfoFrame ==
    UNCHANGED <<pathVars, readVars, walkVars, searchVars, serverVars, handlerVars, matcherVars>>

FileInfoGet == \E p \in InfoPaths : GetFileInfoCall(p) /\ FileInfoFrame
FileInfoChange ==
    \E p \in InfoPaths : \E node \in InfoNodes(p) : FsChange(p, node) /\ FileInfoFrame
FileInfoTick == InfoTick /\ FileInfoFrame
FileInfoClear == InfoClear /\ FileInfoFrame
FileInfoOtherStarts == \E p \in InfoPaths : InfoOtherStarts(p) /\ FileInfoFrame
FileInfoOtherCompletes == InfoOtherCompletes /\ FileInfoFrame

FileInfoNext ==
    FileInfoGet \/ FileInfoChange \/ FileInfoTick \/ FileInfoClear
        \/ FileInfoOtherStarts \/ FileInfoOtherCompletes

SpecFileInfo == FileInfoSpecInit /\ [][FileInfoNext]_vars

MatcherSpecInit ==
    PlatformInit /\ MatcherInit /\ PathIdle /\ ReadIdle /\ ToolIdle /\ SearchIdle /\ ServerIdle /\ HandlersIdle /\ FileInfoIdle

MatcherFrame ==
    UNCHANGED <<pathVars, readVars, toolVars, searchVars, serverVars, handlerVars, infoVars>>

MatcherList == MatcherListFiles /\ MatcherFrame
MatcherTree == MatcherDirTree /\ MatcherFrame
MatcherFind == MatcherSearch /\ MatcherFrame
MatcherChange ==
    /\ envLeft.changes > 0
    /\ \E tree \in MatcherTrees : MatcherRewrite(tree) /\ MatcherFrame

MatcherNext == MatcherList \/ MatcherTree \/ MatcherFind \/ MatcherChange

SpecMatcher == MatcherSpecInit /\ [][MatcherNext]_vars

ResolveSpecInit ==
    PlatformInit /\ ResolveInit /\ PathIdle /\ CacheIdle /\ ReadIdle /\ WalkIdle /\ SearchIdle /\ ServerIdle
        /\ HandlersIdle /\ FileInfoIdle /\ MatcherIdle

ResolveFrame ==
    UNCHANGED <<pathVars, cacheVars, dirSize, readVars, walkVars, searchVars, serverVars, handlerVars,
                infoVars, matcherVars>>

ResolveStep == ResolveCall /\ ResolveFrame
ResolveChange ==
    \E p \in {FileAY, FileBY} : \E node \in {MissingNode, FileNode(1, TRUE, <<"y">>)} :
        ResolveFsChange(p, node) /\ ResolveFrame

ResolveNext == ResolveStep \/ ResolveChange

SpecResolve == ResolveSpecInit /\ [][ResolveNext]_vars

----------------------------------------------------------------------------
(* Claims on the path sandbox                                              *)

IsPrefixSeq(a, b) == Len(a) <= Len(b) /\ SubSeq(b, 1, Len(a)) = a

\* p equals root r or is a descendant of it, segment by segment
InsideRoot(p, r) == IsPrefixSeq(AbsSegs(r), AbsSegs(p))

InsideSomeRoot(p, roots) == \E i \in 1..Len(roots) : InsideRoot(p, roots[i])

AbsForm(p) == <<Sep>> \o Join(AbsSegs(p), Sep)

\* C1: a path that neither equals a root nor descends from one is rejected
\* with the 'outside allowed directories' error, and no path is returned.
C1_OutsideRejected ==
    (pOutcome # Pending /\ ~InsideSomeRoot(pTarget, pRoots))
        => pOutcome = Thrown(OutsideAllowed(pTarget))

\* A rejected path that shares a string prefix with a root (/aa against /a)
C1_Witness ==
    /\ pOutcome = Thrown(OutsideAllowed(pTarget))
    /\ \E i \in 1..Len(pRoots) :
          /\ StartsWith(AbsForm(pTarget), AbsForm(pRoots[i]))
          /\ AbsForm(pRoots[i]) # <<Sep>>

\* C2: a path that equals a root or descends from one (the root may be '/')
\* is accepted and its normalized absolute form is returned.
C2_InsideAccepted ==
    (pOutcome # Pending /\ InsideSomeRoot(pTarget, pRoots))
        => pOutcome = Returned(AbsForm(pTarget))

----------------------------------------------------------------------------
(* Claims on the LRU cache                                                 *)

\* C3: after any sequence of get, set and clear calls the number of stored
\* entries never exceeds the capacity.
C3_SizeBounded == Len(cache) <= maxSize

\* A set on a full cache has just evicted an entry
C3_Witness ==
    /\ ret.op = "set" /\ ret.evicted # None
    /\ maxSize = MaxCap /\ Len(cache) = maxSize

\* C4: an overflowing set evicts the stored entry whose last access (a
\* successful get or a set) is the oldest, the entry just set counting as the
\* most recent; a successful get makes the entry it reads the most recent.
C4_EvictsLeastRecent ==
    [][\A k \in Keys, v \in Values :
         /\ (Set(k, v) /\ ret'.evicted # None)
               => ret'.evicted = Head(Touch(recency, k))
         /\ (Get(k) /\ ret'.result # Absent)
               => (cache' # <<>> /\ Last(cache').key = k)
      ]_vars

\* An eviction that removed an entry set later than one that was kept, because
\* the kept one was read in between
C4_Witness ==
    /\ ret.op = "set" /\ ret.evicted # None /\ ret.evicted # ret.key
    /\ \E i \in 1..Len(cache) :
          /\ cache[i].key # ret.key
          /\ lastSet[cache[i].key] < lastSet[ret.evicted]

\* C5: a get at a time strictly later than the last set of the key plus the
\* TTL returns absent and removes the entry, wherever the entry stands in the
\* LRU order and whether or not the cache is full.
C5_ExpiredNeverReturned ==
    [][\A k \in Keys :
         (Get(k) /\ HasKey(cache, k) /\ now > lastSet[k] + Ttl)
            => (ret'.result = Absent /\ ~HasKey(cache', k))
      ]_vars

\* An expired entry that was the most recently used of a full cache was read
C5_Witness ==
    /\ ret.op = "get" /\ ret.branch = "expired" /\ ret.result = Absent
    /\ maxSize = MaxCap /\ Len(cache) = maxSize - 1
    /\ ~HasKey(cache, ret.key)
    /\ \A i \in 1..Len(cache) : lastSet[cache[i].key] <= lastSet[ret.key]

\* The entries of the Map stored under a key other than k, in Map order
OtherEntries(c, k) == SelectSeq(c, LAMBDA e : e.key # k)

\* s is t with exactly one element taken out
OneRemoved(s, t) ==
    \E i \in 1..Len(t) : s = SubSeq(t, 1, i - 1) \o SubSeq(t, i + 1, Len(t))

\* s holds some of the elements of t, each once and in the order of t
RECURSIVE KeepsOrder(_, _)
KeepsOrder(s, t) ==
    IF s = <<>> THEN TRUE
    ELSE IF t = <<>> THEN FALSE
    ELSE IF Head(s) = Head(t) THEN KeepsOrder(Tail(s), Tail(t))
    ELSE KeepsOrder(s, Tail(t))

\* What C17 says of a set(k, v) step
SetFrame(k, v) ==
    /\ cache' # <<>>
    /\ Last(cache') = [key |-> k, value |-> v, expires |-> now + Ttl]
    /\ Len(OtherEntries(cache', k)) = Len(cache') - 1
    /\ HasKey(cache, k) =>
          /\ OtherEntries(cache', k) = OtherEntries(cache, k)
          /\ Len(cache') = Len(cache)
    /\ (~HasKey(cache, k) /\ Len(cache) = maxSize) =>
          OneRemoved(OtherEntries(cache', k), cache)
    /\ KeepsOrder(OtherEntries(cache', k), OtherEntries(cache, k))

\* C17 as stated: every set(key, value) at time t leaves value stored under
\* key with expiry t + TTL as the most recently used entry; a key already
\* present costs no other entry, a new key on a full cache costs exactly one
\* other entry, and every other entry that remains keeps its value, its expiry
\* and its place relative to the others.
C17_SetFrame ==
    [][\A k \in Keys, v \in Values : Set(k, v) => SetFrame(k, v)]_vars

\* C17 for a cache of capacity at least 1: every set(key, value) at time t
\* leaves value stored under key with expiry t + TTL as the most recently used
\* entry; a key already present costs no other entry, a new key on a full
\* cache costs exactly one other entry, and the other entries that remain keep
\* their value, their expiry and their relative order.
C17_SetFrameWithCapacity ==
    [][\A k \in Keys, v \in Values :
          (Set(k, v) /\ maxSize >= 1) => SetFrame(k, v)]_vars

\* A set of a new key on a full cache of capacity 3 evicted one entry and left
\* two others, stored at different times, in the order they had; the older of
\* the two was not the least recently used one before the set
C17_Witness ==
    /\ ret.op = "set" /\ ret.evicted # None /\ ret.evicted # ret.key
    /\ maxSize = MaxCap /\ Len(cache) = MaxCap
    /\ cache[3].key = ret.key
    /\ cache[1].expires # cache[2].expires
    /\ recency = <<cache[1].key, cache[2].key, cache[3].key>>

\* A set on a cache of capacity 0 stored nothing
C17_WitnessNoCapacity ==
    /\ ret.op = "set" /\ maxSize = 0 /\ cache = <<>>

----------------------------------------------------------------------------
(* Claims on the range reader                                              *)

\* The lines numbered from..to (1-based, inclusive) of a sequence of lines
LinesFromTo(lines, from, to) ==
    [i \in 1..Max(0, to - from + 1) |-> lines[from + i - 1]]

\* C6: with a range, the result is the lines numbered max(1, startLine) to
\* min(n, endLine) of the n lines, in order and joined by the line separator
\* (lines 2 and 3 for startLine = 2, endLine = 3 and n >= 3); with no range,
\* the whole content.
C6_ExactRange ==
    (rOutcome # Pending /\ rReadable) =>
        LET lines == Split(rContent, NL)
            n == Len(lines)
        IN  IF rStart = Undefined /\ rEnd = Undefined
            THEN rOutcome = Returned(rContent)
            ELSE rOutcome = Returned(Join(LinesFromTo(lines,
                                                      Max(1, OrElse(rStart, 1)),
                                                      Min(n, OrElse(rEnd, n))), NL))

\* startLine = 2 and endLine = 3 on the three lines '', 'x', 'y' gave 'x' and
\* 'y' joined by the line separator
C6_Witness ==
    /\ rStart = Some(2) /\ rEnd = Some(3)
    /\ rContent = <<NL, "x", NL, "y">>
    /\ rOutcome = Returned(<<"x", NL, "y">>)

----------------------------------------------------------------------------
(* Claims on the read_files handler                                        *)

\* The request's line bounds as the handler takes them: each floored at 1
Floored(x) == IF x = Undefined THEN Undefined ELSE Some(Max(1, x[1]))

RangeInverted ==
    /\ rfInput.startLine # Undefined
    /\ rfInput.endLine # Undefined
    /\ Floored(rfInput.startLine)[1] > Floored(rfInput.endLine)[1]

RequestedPaths ==
    IF rfInput.path # Undefined THEN <<rfInput.path[1]>>
    ELSE IF rfInput.paths # Undefined THEN rfInput.paths[1]
    ELSE <<>>

\* C7 as claimed: a request whose startLine is greater than its endLine fails
\* with 'Start line cannot be greater than end line' before any path is
\* resolved, any metadata fetched or any content read, for every list of paths.
C7_InvertedRangeFailsFirst ==
    (rfOutcome # Pending /\ RangeInverted)
        => (rfOutcome = Thrown(StartAfterEnd) /\ rfTrace = <<>>)

\* C7 as amended: the same, for a request that names 1 to MaxFiles paths.
C7_InvertedRangeFailsFirstForValidBatch ==
    (/\ rfOutcome # Pending
     /\ RangeInverted
     /\ Len(RequestedPaths) \in 1..MaxFiles)
        => (rfOutcome = Thrown(StartAfterEnd) /\ rfTrace = <<>>)

\* An inverted range was refused for a batch of two paths that would both
\* have been readable
C7_Witness ==
    /\ rfOutcome = Thrown(StartAfterEnd)
    /\ rfTrace = <<>>
    /\ rfInput.startLine = Some(2) /\ rfInput.endLine = Some(1)
    /\ RequestedPaths = <<FileAX, <<"y">> >>
    /\ fsFiles[FileAX].kind = "file" /\ fsFiles[FileAX].readable

\* The maximum size in force for the request: maxFileSize floored at
\* MinMaxFileSize, DefaultMaxFileSize when it is not given
EffectiveMax ==
    IF rfInput.maxFileSize = Undefined THEN DefaultMaxFileSize
    ELSE Max(MinMaxFileSize, rfInput.maxFileSize[1])

\* The node a requested path stands for: MissingNode when it does not resolve
TargetOf(filePath) ==
    Bind(QuietEnv(fsFiles, <<>>, ctxRoots), LAMBDA env :
         resolveFilePath(filePath, ctxRoots, env, StartOf(env)).outcome)

NodeAt(target) ==
    IF target.kind = "return" THEN Lookup(fsFiles, target.value) ELSE MissingNode

Oversized(node) == node.kind = "file" /\ node.size > EffectiveMax

WellSized(node) == node.kind = "file" /\ node.size <= EffectiveMax /\ node.readable

HasField(r, f) == f \in DOMAIN r

WasRead(target) == \E j \in 1..Len(rfTrace) : rfTrace[j] = IoCall("readFile", target.value)

\* C8: in a batch, a file larger than the maximum size yields an error entry
\* that reports its size and the maximum, its content is never read, and every
\* well-sized (readable) file of the batch still yields its content, wherever
\* the oversized file stands in the batch.
C8_OversizedIsolated ==
    (Settled(rfOutcome) /\ rfOutcome.kind = "return") =>
        \A i \in 1..Len(RequestedPaths) :
            LET filePath == RequestedPaths[i]
                entry == rfOutcome.value[i]
                target == TargetOf(filePath)
                node == NodeAt(target)
            IN  /\ Oversized(node) =>
                    /\ HasField(entry, "error")
                    /\ entry.path = filePath
                    /\ entry.error = FileTooLarge(node.size, EffectiveMax)
                    /\ ~WasRead(target)
                /\ WellSized(node) =>
                    /\ HasField(entry, "content")
                    /\ WasRead(target)

\* An oversized file first and a well-sized one after it, in one batch
C8_Witness ==
    /\ Settled(rfOutcome) /\ rfOutcome.kind = "return"
    /\ Len(RequestedPaths) = 2
    /\ Oversized(NodeAt(TargetOf(RequestedPaths[1])))
    /\ WellSized(NodeAt(TargetOf(RequestedPaths[2])))
    /\ HasField(rfOutcome.value[1], "error")
    /\ HasField(rfOutcome.value[2], "content")

----------------------------------------------------------------------------
(* Claims on the directory walker                                          *)

\* The rules of the walked root's ignore file
RulesOf(tree) ==
    LET p == WalkPath(<<GitignoreName>>) IN
    IF p \in DOMAIN tree.fs THEN ParseIgnore(tree.fs[p].content) ELSE <<>>

\* The directories of the tree whose name an ignore rule gives (with or
\* without the trailing '/' of a directory-only rule)
IgnoredDirs(tree) ==
    {q \in DOMAIN tree.fs :
        /\ tree.fs[q].kind = "dir"
        /\ \E r \in 1..Len(RulesOf(tree)) : RulesOf(tree)[r].name = Basename(q)}

UnderIgnoredDir(tree, p) ==
    \E q \in IgnoredDirs(tree) : p = q \/ StartsWith(p, q \o <<Sep>>)

RECURSIVE TreePaths(_)
TreePaths(node) ==
    {node.path}
        \cup (IF "children" \in DOMAIN node
              THEN UNION {TreePaths(node.children[n]) : n \in 1..Len(node.children)}
              ELSE {})

ListedPaths == IF ~Settled(wkList) THEN {}
               ELSE {wkList.value[n].path : n \in 1..Len(wkList.value)}
NestedPaths == IF (Settled(wkTree) /\ wkTree.kind = "return") THEN TreePaths(wkTree.value) ELSE {}
SearchedPaths == IF ~Settled(wkSearch) THEN {}
                 ELSE {wkSearch.value[n].file : n \in 1..Len(wkSearch.value)}

\* C9: a directory that matches an ignore rule of the walked root, and every
\* descendant of it, appears neither in the listing of listFiles, nor in the
\* tree of getDirectoryTree, nor among the files of the search results.
C9_IgnoredDirsPruned ==
    \A p \in DOMAIN wkEnv.fs :
        UnderIgnoredDir(wkEnv, p) =>
            p \notin ListedPaths \cup NestedPaths \cup SearchedPaths

----------------------------------------------------------------------------
(* Claims on the text search                                               *)

\* C10: every match at line i of a file of n lines, searched with k context
\* lines, carries exactly the min(k, i-1) lines before it and the min(k, n-i)
\* lines after it, in file order.
C10_ContextWindows ==
    sOutcome # Pending =>
        LET lines == Split(sContent, NL)
            n == Len(lines)
            k == sOpts.contextLines
        IN  \A x \in 1..Len(sOutcome.value) :
                LET m == sOutcome.value[x]
                    i == m.line
                IN  /\ i \in 1..n
                    /\ m.context.before = SubSeq(lines, i - Min(k, i - 1), i - 1)
                    /\ m.context.after = SubSeq(lines, i + 1, i + Min(k, n - i))

\* A search with more context lines than the file has around its matches: one
\* match on the first line, one on the last line
C10_Witness ==
    /\ sOutcome # Pending
    /\ sOpts.contextLines = MaxContext
    /\ Len(Split(sContent, NL)) = 2
    /\ \E x, y \in 1..Len(sOutcome.value) :
          /\ sOutcome.value[x].line = 1
          /\ sOutcome.value[x].context.before = <<>>
          /\ Len(sOutcome.value[x].context.after) = 1
          /\ sOutcome.value[y].line = 2
          /\ Len(sOutcome.value[y].context.before) = 1
          /\ sOutcome.value[y].context.after = <<>>

\* The line contains the query under the chosen case and whole-word options
LineContains(line, opts) == \E p \in 0..Len(line) : MatchesAt(line, p, opts)

\* The numbers of the lines of the file that contain the query, ascending
RECURSIVE MatchingLines(_, _, _)
MatchingLines(lines, i, opts) ==
    IF i > Len(lines) THEN <<>>
    ELSE (IF LineContains(lines[i], opts) THEN <<i>> ELSE <<>>)
             \o MatchingLines(lines, i + 1, opts)

ReportedLines == [x \in 1..Len(sOutcome.value) |-> sOutcome.value[x].line]

\* C11: searchInFile reports one match for every line that contains the query
\* and none for any other line, whatever the lines before it.
C11_EveryMatchingLineReported ==
    sOutcome # Pending =>
        ReportedLines = MatchingLines(Split(sContent, NL), 1, sOpts)

----------------------------------------------------------------------------
(* Claims on the server                                                    *)

\* C12: the handler of a tool other than dir_tree is run exactly when a
\* dir_tree call had returned before the call arrived; an earlier call is
\* rejected with the "Please run 'dir_tree'" error, and after a dir_tree call
\* has returned every call to a known tool reaches its handler.
C12_GatedByDirTree ==
    \A i \in 1..Len(srvCalls) :
        LET c == srvCalls[i] IN
        /\ (c.name # "dir_tree" /\ c.name \in ToolNames) =>
               (c.handlerRan <=> c.doneBefore)
        /\ (c.name # "dir_tree" /\ ~c.doneBefore) =>
               /\ ~c.handlerRan
               /\ c.status = "thrown"
               /\ c.error = PleaseRunDirTree
        /\ (c.doneBefore /\ c.name \in ToolNames) => c.handlerRan

\* A call rejected while the first dir_tree call is running, and a call
\* dispatched after that dir_tree call has returned
C12_Witness ==
    /\ Len(srvCalls) = 3
    /\ srvCalls[1].name = "dir_tree" /\ srvCalls[1].status = "returned"
    /\ srvCalls[2].name = "list_files" /\ srvCalls[2].error = PleaseRunDirTree
    /\ srvCalls[3].name = "list_files" /\ srvCalls[3].handlerRan

----------------------------------------------------------------------------
(* Claims on the tool handlers                                             *)

\* The tool call has ended and the filesystem stood still while it ran
CallDone == Settled(thOutcome)

\* What a call sees in a world that stands still as it is now
Still == QuietEnv(wkEnv.fs, wkEnv.dirs, ctxRoots)

\* The paths a list_files or dir_tree call iterates over
RequestedRoots == PathsToList(thInput.path, ctxRoots, Still, StartOf(Still)).outcome

\* What each entry of the batch is when its path or root is processed alone
ListedAlone(rootPath) ==
    LET params == listFilesParseInput(thInput) IN
    [root |-> rootPath,
     files |-> listFiles(rootPath,
                         [pattern |-> params.pattern,
                          recursive |-> Some(params.recursive),
                          maxDepth |-> Some(params.maxDepth),
                          includeHidden |-> Some(params.includeHidden)],
                         Still, StartOf(Still)).results]

TreeAlone(rootPath) ==
    LET params == dirTreeParseInput(thInput)
        tree == getDirectoryTree(rootPath,
                                 [maxDepth |-> Some(params.maxDepth),
                                  includeHidden |-> Some(params.includeHidden)],
                                 0, Undefined, rootPath, Still, StartOf(Still)).outcome
    IN  IF tree.kind = "throw" THEN [root |-> rootPath, error |-> tree.error]
        ELSE [root |-> rootPath, tree |-> tree.value]

ReadAlone(filePath) ==
    LET file == readSingleFile(filePath, readFilesParseInput(thInput).value,
                               Still, StartOf(Still))
    IN  IF file.outcome.kind = "throw"
        THEN [path |-> filePath, error |-> file.outcome.error]
        ELSE file.outcome.value

\* The entries of the batch name the requested paths or roots, in order
NamesInOrder(entries, requested, field) ==
    /\ Len(entries) = Len(requested)
    /\ \A i \in 1..Len(requested) : entries[i][field] = requested[i]

\* C13: a batch that starts (its input parsed, its paths or roots determined)
\* returns, and its output has one entry per requested path or root, in
\* request order: entry i is the result, or the error, of path or root i
\* processed on its own, whatever happened to the entries before it. That
\* the batch returns one entry per path or root, in order, holds also when
\* the filesystem, the clock or the metadata cache change while it runs.
C13_OneEntryPerRequest ==
    /\ (Done(thOutcome) /\ thTool = "read_files"
            /\ readFilesParseInput(thInput).kind = "return") =>
        /\ thOutcome.kind = "return"
        /\ Len(thOutcome.value) = Len(thInput.paths[1])
    /\ (Done(thOutcome) /\ thTool \in {"list_files", "dir_tree"}
            /\ thInput.path = Undefined) =>
        /\ thOutcome.kind = "return"
        /\ NamesInOrder(thOutcome.value, ctxRoots, "root")
    /\ (CallDone /\ thTool \in {"list_files", "dir_tree"}
            /\ RequestedRoots.kind = "return") =>
        /\ thOutcome.kind = "return"
        /\ Len(thOutcome.value) = Len(RequestedRoots.value)
        /\ \A i \in 1..Len(RequestedRoots.value) :
               thOutcome.value[i] =
                   IF thTool = "list_files" THEN ListedAlone(RequestedRoots.value[i])
                   ELSE TreeAlone(RequestedRoots.value[i])
    /\ (CallDone /\ thTool = "read_files"
            /\ readFilesParseInput(thInput).kind = "return") =>
        /\ thOutcome.kind = "return"
        /\ Len(thOutcome.value) = Len(thInput.paths[1])
        /\ \A i \in 1..Len(thInput.paths[1]) :
               thOutcome.value[i] = ReadAlone(thInput.paths[1][i])

\* A dir_tree call over three roots: the first fails, the second has a tree
C13_Witness ==
    /\ CallDone /\ thTool = "dir_tree"
    /\ thOutcome.kind = "return"
    /\ Len(thOutcome.value) = 3
    /\ HasField(thOutcome.value[1], "error")
    /\ HasField(thOutcome.value[2], "tree")

\* A read_files call over three paths: two fail, the third is read
C13_WitnessRead ==
    /\ CallDone /\ thTool = "read_files"
    /\ thOutcome.kind = "return"
    /\ Len(thOutcome.value) = 3
    /\ HasField(thOutcome.value[1], "error")
    /\ HasField(thOutcome.value[3], "content")

SearchReturned == CallDone /\ thTool = "search_files" /\ thOutcome.kind = "return"

\* The matches a search_files answer holds, in the order of its text
RECURSIVE ShownMatches(_, _)
ShownMatches(files, g) ==
    IF g > Len(files) THEN <<>>
    ELSE [x \in 1..Len(files[g].shown) |->
             [file |-> files[g].path, line |-> files[g].shown[x].line]]
         \o ShownMatches(files, g + 1)

\* The matches the search found, as the answer would show them
FoundMatches ==
    [i \in 1..Len(thFound) |->
        [file |-> DisplayPath(thFound[i].file, thFound[i].file, ctxRoots, 1),
         line |-> thFound[i].line]]

EffectiveMaxResults == searchFilesParseInput(thInput).value.maxResults

\* C14: a search_files answer holds the first min(maxResults, total) matches
\* of the search, in the order the search produced them, and its total-match
\* count is the number of matches found before truncation.
C14_FirstMatchesAndTotal ==
    SearchReturned =>
        /\ ShownMatches(thOutcome.value.formatted.files, 1)
             = SubSeq(FoundMatches, 1, Min(EffectiveMaxResults, Len(thFound)))
        /\ thOutcome.value.summary.totalMatches = Len(thFound)

\* The root a found file was searched under, as an index of the roots argument
RootIndexOf(file) ==
    CHOOSE r \in 1..Len(ctxRoots) : StartsWith(file, ctxRoots[r] \o <<Sep>>)

\* The files of root r in the order the flat walker returned them to the search
WalkerOrder(r) ==
    LET params == searchFilesParseInput(thInput).value IN
    listFiles(ctxRoots[r],
              [pattern |-> params.filePattern, maxDepth |-> params.maxDepth,
               recursive |-> Undefined, includeHidden |-> Undefined],
              Still, StartOf(Still)).results

FileIndexOf(r, file) ==
    CHOOSE k \in 1..Len(WalkerOrder(r)) : WalkerOrder(r)[k].path = file

\* Match i comes before match j by root, then by file, then by line
OrderedBefore(i, j) ==
    LET ri == RootIndexOf(thFound[i].file)
        rj == RootIndexOf(thFound[j].file)
        fi == FileIndexOf(ri, thFound[i].file)
        fj == FileIndexOf(rj, thFound[j].file)
    IN  \/ ri < rj
        \/ ri = rj /\ fi < fj
        \/ ri = rj /\ fi = fj /\ thFound[i].line < thFound[j].line

\* C15: the sequence searchInFiles returns is ordered by root in the order of
\* the roots argument, then by file in the order the flat walker returned the
\* files of that root, then by ascending line number; every match lies in a
\* file the walker returned for its root.
C15_OrderedByRootFileLine ==
    SearchReturned =>
        /\ \A i \in 1..Len(thFound) :
              /\ \E r \in 1..Len(ctxRoots) :
                     StartsWith(thFound[i].file, ctxRoots[r] \o <<Sep>>)
              /\ \E k \in 1..Len(WalkerOrder(RootIndexOf(thFound[i].file))) :
                     WalkerOrder(RootIndexOf(thFound[i].file))[k].path = thFound[i].file
        /\ \A i \in 1..Len(thFound), j \in 1..Len(thFound) :
              i < j => OrderedBefore(i, j)

\* A search over two roots that found matches in two files of the first root
\* and on several lines of a file of the second
C15_Witness ==
    /\ SearchReturned
    /\ \E i \in 1..Len(thFound), j \in 1..Len(thFound), k \in 1..Len(thFound) :
          /\ i < j /\ j < k
          /\ RootIndexOf(thFound[i].file) = RootIndexOf(thFound[j].file)
          /\ thFound[i].file # thFound[j].file
          /\ RootIndexOf(thFound[j].file) < RootIndexOf(thFound[k].file)
          /\ k < Len(thFound)
          /\ thFound[k + 1].file = thFound[k].file

----------------------------------------------------------------------------
(* Claims on the walker's options: hidden entries, depth, name pattern     *)

\* The names of a path below the walked root, and its depth: the direct
\* children of the root are at depth 0
NamesBelowRoot(p) == Split(Relative(RootA, p), Sep)
DepthOf(p) == Len(NamesBelowRoot(p)) - 1
ParentOf(p) == SubSeq(p, 1, Len(p) - Len(Last(NamesBelowRoot(p))) - 1)
BelowRootPaths == {p \in DOMAIN wkEnv.fs : StartsWith(p, RootA \o <<Sep>>)}

HasHiddenName(p) ==
    \E n \in 1..Len(NamesBelowRoot(p)) : StartsWith(NamesBelowRoot(p)[n], Dot)

IncludeHidden == OrElse(wkOpts.includeHidden, FALSE)
Recursive == OrElse(wkOpts.recursive, TRUE)
MaxDepth == OrElse(wkOpts.maxDepth, DefaultMaxDepth)

IgnoredByRules(p) == Ignores(RulesOf(wkEnv), Relative(RootA, p))

\* The walk gets to entry p: its parent and every ancestor can be enumerated,
\* and no entry enumerated before it, or before an ancestor of it, is one
\* whose metadata cannot be read
RECURSIVE Enumerated(_)
Enumerated(p) ==
    LET q == ParentOf(p)
        name == Last(NamesBelowRoot(p))
    IN  /\ q \in DOMAIN wkEnv.dirs
        /\ \E k \in 1..Len(wkEnv.dirs[q]) :
              /\ wkEnv.dirs[q][k] = name
              /\ \A j \in 1..(k - 1) :
                    PathJoin(q, wkEnv.dirs[q][j]) \in DOMAIN wkEnv.fs
        /\ (q = RootA \/ Enumerated(q))

PatternAdmits(p) ==
    \/ wkEnv.fs[p].kind = "dir"
    \/ wkOpts.pattern = Undefined
    \/ matchesPattern(Last(NamesBelowRoot(p)), wkOpts.pattern[1])

WithinFlatDepth(p) == DepthOf(p) = 0 \/ (Recursive /\ DepthOf(p) <= MaxDepth)

\* C16: with includeHidden false, no entry with a name starting with '.', and
\* no descendant of such a directory, is in the flat listing or in the tree;
\* with includeHidden true, a hidden entry (or a descendant of one) that the
\* walk gets to is listed whenever the ignore rules, the depth and the name
\* pattern admit it, and is in the tree whenever the ignore rules and the tree's
\* depth admit it.
C16_HiddenEntries ==
    /\ ~IncludeHidden =>
          \A p \in ListedPaths \cup (NestedPaths \ {RootA}) : ~HasHiddenName(p)
    /\ IncludeHidden =>
          \A p \in BelowRootPaths :
              (HasHiddenName(p) /\ ~IgnoredByRules(p)) =>
                  /\ (Settled(wkList) /\ Enumerated(p) /\ WithinFlatDepth(p)
                          /\ PatternAdmits(p)) => p \in ListedPaths
                  /\ ((Settled(wkTree) /\ wkTree.kind = "return") /\ DepthOf(p) < MaxDepth) =>
                          p \in NestedPaths

\* A listing made with includeHidden of a tree with a file in a hidden
\* directory: the listing holds the directory and the file
C16_Witness ==
    /\ IncludeHidden
    /\ WalkPath(<<NameH>>) \in ListedPaths
    /\ WalkPath(<<NameH, NameF>>) \in ListedPaths

\* The same for the tree
C16_WitnessTree ==
    /\ IncludeHidden
    /\ WalkPath(<<NameH, NameF>>) \in NestedPaths

\* A listing made without includeHidden of a tree with a hidden directory
C16_WitnessExcluded ==
    /\ ~IncludeHidden
    /\ WalkPath(<<NameH, NameF>>) \in DOMAIN wkEnv.fs
    /\ Settled(wkList)
    /\ WalkPath(<<NameF>>) \in ListedPaths

\* C18: in flat mode, with the direct children of the walked root at depth 0,
\* every listed entry is at a depth of at most maxDepth, and at depth 0 when
\* recursive is false; and every non-hidden, non-ignored directory at a depth
\* of at most maxDepth (at depth 0 when recursive is false) is listed.
C18_FlatDepth ==
    Settled(wkList) =>
        /\ \A p \in ListedPaths :
              /\ DepthOf(p) <= MaxDepth
              /\ ~Recursive => DepthOf(p) = 0
        /\ \A p \in BelowRootPaths :
              (/\ wkEnv.fs[p].kind = "dir"
               /\ ~HasHiddenName(p)
               /\ ~IgnoredByRules(p)
               /\ DepthOf(p) <= MaxDepth
               /\ Recursive \/ DepthOf(p) = 0) => p \in ListedPaths

\* The paths listFiles returns for the walked root and the options of the
\* call, on the filesystem as it is
FlatPaths ==
    Bind(QuietEnv(wkEnv.fs, wkEnv.dirs, <<>>), LAMBDA env :
    Bind(listFiles(RootA, wkOpts, env, StartOf(env)).results, LAMBDA listed :
         {listed[n].path : n \in 1..Len(listed)}))

\* C19: with no name pattern, for the same root, maxDepth and includeHidden,
\* the paths of the nodes below the root of the tree getDirectoryTree returns
\* are the paths listFiles returns: the entries of depth 0 to maxDepth.
C19_TreeAndFlatSameDepth ==
    (/\ Settled(wkTree) /\ wkTree.kind = "return"
     /\ wkOpts.pattern = Undefined
     /\ Recursive) => NestedPaths \ {RootA} = FlatPaths

\* The name pattern of the call, when it has one
HasPattern == wkOpts.pattern # Undefined /\ wkOpts.pattern[1] # <<>>

\* C20: in flat mode with a name pattern, a non-hidden, non-ignored directory
\* within maxDepth is listed whether or not its name matches it, and so is every
\* non-hidden, non-ignored file within maxDepth whose name matches it, also
\* when no directory above it matches.
C20_PatternKeepsDirectories ==
    (Settled(wkList) /\ HasPattern) =>
        \A p \in BelowRootPaths :
            (/\ ~HasHiddenName(p)
             /\ ~IgnoredByRules(p)
             /\ WithinFlatDepth(p)
             /\ \/ wkEnv.fs[p].kind = "dir"
                \/ matchesPattern(Last(NamesBelowRoot(p)), wkOpts.pattern[1]))
                => p \in ListedPaths

\* A name matches a pattern as a glob: the whole name, '*' for any run of
\* characters, '?' for one character, any other character for itself, letter
\* case ignored
RECURSIVE GlobMatchesWhole(_, _, _, _)
GlobMatchesWhole(name, i, pattern, j) ==
    IF j > Len(pattern) THEN i = Len(name) + 1
    ELSE IF pattern[j] = "*"
    THEN \E k \in i..(Len(name) + 1) : GlobMatchesWhole(name, k, pattern, j + 1)
    ELSE /\ i <= Len(name)
         /\ pattern[j] = "?" \/ ToLower(name[i]) = ToLower(pattern[j])
         /\ GlobMatchesWhole(name, i + 1, pattern, j + 1)

IsGlobMatch(name, pattern) == GlobMatchesWhole(name, 1, pattern, 1)

\* C21: with a name pattern, a non-directory entry is in the flat listing if
\* and only if its name matches the pattern as a glob (an entry that is hidden
\* without includeHidden, ignored, beyond the depth or never reached by the
\* walk is not listed either way).
C21_PatternIsGlob ==
    (Settled(wkList) /\ HasPattern) =>
        \A p \in BelowRootPaths :
            wkEnv.fs[p].kind = "file" =>
                /\ p \in ListedPaths =>
                       IsGlobMatch(Last(NamesBelowRoot(p)), wkOpts.pattern[1])
                /\ (/\ IsGlobMatch(Last(NamesBelowRoot(p)), wkOpts.pattern[1])
                    /\ ~(HasHiddenName(p) /\ ~IncludeHidden)
                    /\ ~IgnoredByRules(p)
                    /\ Enumerated(p)
                    /\ WithinFlatDepth(p)) => p \in ListedPaths

\* Name a comes no later than name b: a is a prefix of b, or at the first
\* place where they differ a has the character that collates first
NameAtMost(a, b) ==
    \/ (Len(a) <= Len(b) /\ SubSeq(b, 1, Len(a)) = a)
    \/ \E n \in 1..Min(Len(a), Len(b)) :
          /\ SubSeq(a, 1, n - 1) = SubSeq(b, 1, n - 1)
          /\ a[n] # b[n]
          /\ CollationRank(a[n]) < CollationRank(b[n])

\* Directories before non-directories, names ascending within each group
DirsFirstThenByName(entries) ==
    \A i \in 1..Len(entries), j \in 1..Len(entries) :
        i < j =>
            /\ entries[j].isDirectory => entries[i].isDirectory
            /\ entries[i].isDirectory = entries[j].isDirectory =>
                   NameAtMost(entries[i].name, entries[j].name)

RECURSIVE TreeNodesOf(_)
TreeNodesOf(node) ==
    {node}
        \cup (IF "children" \in DOMAIN node
              THEN UNION {TreeNodesOf(node.children[n]) : n \in 1..Len(node.children)}
              ELSE {})

\* C22: the whole sequence listFiles returns, and the children of every node
\* of the tree getDirectoryTree returns, have all directories before all
\* non-directories and, within each group, the names in ascending order.
C22_SortedDirsFirst ==
    /\ Settled(wkList) => DirsFirstThenByName(wkList.value)
    /\ (Settled(wkTree) /\ wkTree.kind = "return") =>
          \A node \in TreeNodesOf(wkTree.value) :
              "children" \in DOMAIN node => DirsFirstThenByName(node.children)

\* A listing of a root whose directory d is enumerated after its file f: it
\* gives d first, and the files of all levels after the directories of all
\* levels
C22_Witness ==
    /\ Settled(wkList)
    /\ Len(wkList.value) >= 4
    /\ wkList.value[1].isDirectory /\ wkList.value[2].isDirectory
    /\ ~wkList.value[Len(wkList.value)].isDirectory

\* A tree of such a root: it gives d first
C22_WitnessTree ==
    /\ Settled(wkTree) /\ wkTree.kind = "return"
    /\ "children" \in DOMAIN wkTree.value
    /\ Len(wkTree.value.children) >= 2
    /\ wkTree.value.children[1].path = WalkPath(<<NameD>>)
    /\ ~wkTree.value.children[2].isDirectory

\* The directories below the root that exist but cannot be enumerated
UnreadableDirs ==
    {q \in BelowRootPaths : wkEnv.fs[q].kind = "dir" /\ q \notin DOMAIN wkEnv.dirs}

\* The tree walk looks at entry p: it is within the tree's depth and is
\* neither skipped as hidden nor ignored
VisitedByTree(p) ==
    /\ DepthOf(p) < MaxDepth
    /\ ~(HasHiddenName(p) /\ ~IncludeHidden)
    /\ ~IgnoredByRules(p)

\* C23: in tree mode a subdirectory that cannot be enumerated is skipped: the
\* call still returns a tree for the root, and the tree holds the siblings of
\* the unreadable directory.
C23_TreeSkipsUnreadable ==
    Settled(wkTree) =>
        \A q \in UnreadableDirs :
            VisitedByTree(q) =>
                /\ (Settled(wkTree) /\ wkTree.kind = "return")
                /\ \A p \in BelowRootPaths :
                      (ParentOf(p) = ParentOf(q) /\ VisitedByTree(p)) =>
                          p \in NestedPaths

----------------------------------------------------------------------------
(* Claims on failures during the walk                                      *)

\* The tree without the entries whose metadata cannot be read: readdir does
\* not give them
WithoutFailingEntries(tree) ==
    [fs |-> tree.fs,
     dirs |-> [q \in DOMAIN tree.dirs |->
                 SelectSeq(tree.dirs[q],
                           LAMBDA n : PathJoin(q, n) \in DOMAIN tree.fs)]]

\* The walk of this tree meets an entry whose metadata cannot be read
SomeEntryFails == WithoutFailingEntries(wkEnv) # wkEnv

\* What the same call lists when the failing entries are not there
ListedWithoutFailures ==
    LET r == Bind(QuietEnv(WithoutFailingEntries(wkEnv).fs, WithoutFailingEntries(wkEnv).dirs, <<>>),
                  LAMBDA env : listFiles(RootA, wkOpts, env, StartOf(env)).results)
    IN  {r[n].path : n \in 1..Len(r)}

\* C24: in flat mode a failure on one entry takes out of the listing only
\* that entry and its subtree: listFiles returns, and its result holds every
\* entry it would hold without the failing entry, those enumerated after it
\* in the same directory included.
C24_FlatFailureIsLocal ==
    Settled(wkList) =>
        /\ wkList.kind = "return"
        /\ ListedWithoutFailures \subseteq ListedPaths

----------------------------------------------------------------------------
(* Claims on getFileInfo and the metadata cache                            *)

\* A call of getFileInfo has returned or thrown
InfoCallDone == giCall.op = "getFileInfo" /\ Done(giCall.outcome)

\* The cache and the clock when the call was made
Before == ioLog[1].cache
CalledAt == ioLog[1].now

\* The unexpired entry the cache held for the path of the call, if any
HeldUnexpired ==
    {n \in 1..Len(Before) :
        Before[n].key = giCall.path /\ CalledAt <= Before[n].expires}

StatOfCall == <<IoCall("stat", giCall.path)>>

\* The cache as the call found it when its stat call had completed
AtCompletion == ioLog[Len(ioLog)].cache

\* Nothing touched the cache while the call awaited its stat call (it was not
\* cleared, no other call stored, evicted or promoted an entry): the await
\* found the cache as the lookup had left it
CacheLeftAlone ==
    \A k \in 2..Len(ioLog) : ioLog[k].cache = OtherEntries(Before, giCall.path)

\* What C25 says of a getFileInfo call, but for what the cache holds after
\* a failing stat; the file is as the stat call found it
ReadThrough ==
    /\ HeldUnexpired # {} =>
          /\ giCall.stats = <<>>
          /\ \A n \in HeldUnexpired : giCall.outcome = Returned(Before[n].value)
    /\ HeldUnexpired = {} =>
          /\ giCall.stats = StatOfCall
          /\ Lookup(fsFiles, giCall.path) # MissingNode =>
                giCall.outcome
                    = Returned(FileInfoOf(giCall.path, Lookup(fsFiles, giCall.path)))
          /\ Lookup(fsFiles, giCall.path) = MissingNode =>
                giCall.outcome.kind = "throw"

\* The FileInfo of a miss is in the cache, to expire TTL after the stat call
\* completed
StoredOnMiss ==
    (HeldUnexpired = {} /\ giCall.outcome.kind = "return") =>
        \E n \in 1..Len(cache) :
            /\ cache[n].key = giCall.path
            /\ cache[n].value = giCall.outcome.value
            /\ cache[n].expires = now + Ttl

\* C25 as stated: a hit returns the cached entry without a stat call; a miss
\* makes exactly one stat call, stores the FileInfo under the path and returns
\* it; a failing stat throws and leaves the cache content unchanged (when
\* nothing else touched the cache while the call awaited).
C25_ReadThrough ==
    InfoCallDone =>
        /\ ReadThrough
        /\ StoredOnMiss
        /\ (giCall.outcome.kind = "throw" /\ CacheLeftAlone) => cache = Before

\* C25 for what the code does at its edges: a hit, decided at the call,
\* returns the cached entry without a stat call; a miss makes exactly one stat
\* call and returns its FileInfo, which is stored under the path, to expire
\* TTL after the completion of the stat call, when the capacity is at least 1;
\* a failing stat throws and the call stores nothing: the cache is left as the
\* completion of the stat call found it, and when nothing touched the cache
\* during the await it holds no entry for the path (an expired one was removed
\* by the lookup) and the entries of the other paths as before. This holds
\* also when another getFileInfo call is in flight at the same time.
C25_ReadThroughWithCapacity ==
    InfoCallDone =>
        /\ ReadThrough
        /\ maxSize >= 1 => StoredOnMiss
        /\ giCall.outcome.kind = "throw" =>
               /\ cache = AtCompletion
               /\ CacheLeftAlone =>
                      /\ ~HasKey(cache, giCall.path)
                      /\ cache = OtherEntries(Before, giCall.path)

\* A hit on a file that was rewritten after it was cached: the cached
\* FileInfo is returned and no stat call is made
C25_Witness ==
    /\ InfoCallDone
    /\ HeldUnexpired # {}
    /\ giCall.stats = <<>>
    /\ giCall.outcome.kind = "return"
    /\ Lookup(fsFiles, giCall.path) # MissingNode
    /\ giCall.outcome.value # FileInfoOf(giCall.path, Lookup(fsFiles, giCall.path))

\* A failing stat while the call of another request was in flight: during the
\* await the other call stored the FileInfo of another path, and the cache
\* holds it after the throw
C25_WitnessOtherStored ==
    /\ InfoCallDone
    /\ giCall.outcome.kind = "throw"
    /\ envLeft.others = 0
    /\ ~CacheLeftAlone
    /\ \E n \in 1..Len(cache) :
          /\ cache[n].key # giCall.path
          /\ ~HasKey(Before, cache[n].key)

\* A failing stat on a path whose expired entry was still in the cache
C25_WitnessExpiredThenFails ==
    /\ InfoCallDone
    /\ giCall.outcome.kind = "throw"
    /\ CacheLeftAlone
    /\ cache # Before

\* A cache hit leaves the expiry of the entry as it was, and every entry
\* expires TTL after the stat call that produced it completed
ExpiryNeverExtended ==
    /\ \A n \in HeldUnexpired :
          \A m \in 1..Len(cache) :
              cache[m].key = giCall.path =>
                  cache[m].expires = Before[n].expires
    /\ \A m \in 1..Len(cache) :
          /\ giLastStat[cache[m].key].at >= 0
          /\ cache[m].expires = giLastStat[cache[m].key].at + Ttl

\* C30 as stated: every FileInfo that getFileInfo returns is the result of a
\* stat call made (issued) at most TTL time units before the return, whatever
\* calls, changes of the files and lapses of time came before; and a cache hit
\* leaves the expiry of the entry as it was.
C30_StalenessFromIssue ==
    InfoCallDone =>
        /\ giCall.outcome.kind = "return" =>
              /\ giLastStat[giCall.path].at >= 0
              /\ giLastStat[giCall.path].info = giCall.outcome.value
              /\ now - giLastStat[giCall.path].made <= Ttl
        /\ ExpiryNeverExtended

\* C30 as amended: every FileInfo that getFileInfo returns is the result of a
\* stat call that completed at most TTL time units before the return; and a
\* cache hit leaves the expiry of the entry as it was.
C30_StalenessBoundedByTtl ==
    InfoCallDone =>
        /\ giCall.outcome.kind = "return" =>
              /\ giLastStat[giCall.path].at >= 0
              /\ giLastStat[giCall.path].info = giCall.outcome.value
              /\ now - giLastStat[giCall.path].at <= Ttl
        /\ ExpiryNeverExtended

\* A hit on an entry whose stat call was issued more than TTL before: the
\* clock advanced while the stat call was awaited
C30_WitnessSlowStat ==
    /\ InfoCallDone
    /\ HeldUnexpired # {}
    /\ giCall.outcome.kind = "return"
    /\ now - giLastStat[giCall.path].made > Ttl
    /\ now - giLastStat[giCall.path].at <= Ttl

\* A path read again and again: the last call found the entry expired and
\* made a new stat call, though an earlier hit had made it the most recent
C30_Witness ==
    /\ InfoCallDone
    /\ giCall.outcome.kind = "return"
    /\ giCall.stats # <<>>
    /\ \E n \in 1..Len(Before) :
          /\ Before[n].key = giCall.path
          /\ Before[n].expires < CalledAt
          /\ n = Len(Before)
          /\ Len(Before) = 2

\* Two calls for one path in flight at once: when the stat call of this call
\* completed, the cache held the entry the other call had stored; this call
\* stored its own FileInfo over it, to expire later
C30_WitnessRestamped ==
    /\ InfoCallDone
    /\ giCall.outcome.kind = "return"
    /\ giCall.stats # <<>>
    /\ \E n \in 1..Len(AtCompletion), m \in 1..Len(cache) :
          /\ AtCompletion[n].key = giCall.path
          /\ cache[m].key = giCall.path
          /\ AtCompletion[n].expires < cache[m].expires
          /\ AtCompletion[n].value # cache[m].value

\* A hit at the last moment of the TTL on a file rewritten in between
C30_WitnessHitAtTtl ==
    /\ C25_Witness
    /\ now - giLastStat[giCall.path].at = Ttl

----------------------------------------------------------------------------
(* Claims on the ignore matcher over a sequence of calls                   *)

\* The reads of the root's ignore file made by the calls so far
RECURSIVE ReadsOf(_, _, _)
ReadsOf(log, p, i) ==
    IF i > Len(log) THEN 0
    ELSE Cardinality({ j \in 1..Len(log[i].reads) :
                         log[i].reads[j] = IoCall("readFile", p) })
         + ReadsOf(log, p, i + 1)

RootIgnoreReads == ReadsOf(igLog, PathJoin(RootA, GitignoreName), 1)

\* C27: over any sequence of listFiles, getDirectoryTree and searchInFiles
\* calls on the same root, the root's ignore file is read at most once, and
\* every call after the first uses the matcher built by the first.
C27_MatcherMemoized ==
    /\ RootIgnoreReads <= 1
    /\ \A i \in 1..Len(igLog) : igLog[i].rules = igLog[1].rules

\* Two calls were made and the ignore file was rewritten between them: the
\* second call read the file again and used the new rules
C27_SecondCallReadsAgain ==
    /\ Len(igLog) = 2
    /\ RootIgnoreReads = 2
    /\ igLog[2].rules # igLog[1].rules

----------------------------------------------------------------------------
(* Claims on the resolution of relative paths by read_files                *)

\* The candidate of root i: the relative path taken from that root
CandidateOf(i) == AbsForm(ctxRoots[i] \o <<Sep>> \o rfInput)

\* The candidate of root i lies under that root and exists
Qualifies(i) ==
    /\ InsideRoot(CandidateOf(i), ctxRoots[i])
    /\ Lookup(fsFiles, CandidateOf(i)).kind # "missing"

QualifyingRoots == { i \in 1..Len(ctxRoots) : Qualifies(i) }

FirstQualifying == CHOOSE i \in QualifyingRoots : \A j \in QualifyingRoots : i <= j

\* C26: a relative path is resolved to the candidate of the first root, in
\* configured order, whose candidate both lies under that root and exists (so
\* never to a candidate that left its root through '..'); when no root
\* qualifies, the resolution fails with the not-found error listing the roots.
C26_FirstQualifyingRoot ==
    Settled(rfOutcome) =>
        IF QualifyingRoots # {}
        THEN rfOutcome = Returned(CandidateOf(FirstQualifying))
        ELSE rfOutcome = Thrown(NotFoundInRoots(rfInput, ctxRoots))

\* The filesystem root is a configured root, the path names something that
\* exists below it, and the resolution fails as not found
C26_NotFoundBelowFilesystemRoot ==
    /\ rfOutcome = Thrown(NotFoundInRoots(rfInput, ctxRoots))
    /\ QualifyingRoots # {}
    /\ ctxRoots[FirstQualifying] = <<Sep>>

\* With no filesystem root among the roots the resolution is as C26 says
ResolvedAsStatedBelowOtherRoots ==
    (\A i \in 1..Len(ctxRoots) : ctxRoots[i] # <<Sep>>) => C26_FirstQualifyingRoot

\* The second root wins because the first has no such path
ResolvedBySecondRoot ==
    /\ Len(ctxRoots) = 2
    /\ QualifyingRoots = {2}
    /\ InsideRoot(CandidateOf(1), ctxRoots[1])
    /\ rfOutcome = Returned(CandidateOf(2))

----------------------------------------------------------------------------
(* Claims on the changes of the dir_tree gate                              *)

\* The step is the return of the handler of a dir_tree call
DirTreeHandlerReturnsStep ==
    \E i \in 1..Len(srvCalls) :
        /\ srvCalls[i].name = "dir_tree"
        /\ srvCalls[i].status = "running"
        /\ srvCalls'[i].status = "returned"

\* The step is a handler throwing
HandlerThrowsStep ==
    \E i \in 1..Len(srvCalls) :
        /\ srvCalls[i].status = "running"
        /\ srvCalls'[i].status = "thrown"

\* The step is the arrival of a call to another tool while a dir_tree call is
\* running and none has returned
ArrivesDuringFirstDirTree ==
    /\ Len(srvCalls') = Len(srvCalls) + 1
    /\ srvCalls'[Len(srvCalls')].name # "dir_tree"
    /\ ~SomeDirTreeReturned(srvCalls)
    /\ \E i \in 1..Len(srvCalls) :
          srvCalls[i].name = "dir_tree" /\ srvCalls[i].status = "running"

\* C28: the gate changes only from closed to open and only when a dir_tree
\* handler returns; a call to another tool arriving while the first dir_tree
\* call is in progress is rejected; a handler that throws leaves the gate as
\* it was (closed if it was closed, open if it was open).
C28_GateOnlyOpensOnDirTreeReturn ==
    [][ /\ (srvDirTreeRan' # srvDirTreeRan) =>
              (~srvDirTreeRan /\ srvDirTreeRan' /\ DirTreeHandlerReturnsStep)
        /\ HandlerThrowsStep => (srvDirTreeRan' = srvDirTreeRan)
        /\ ArrivesDuringFirstDirTree =>
              /\ srvCalls'[Len(srvCalls')].status = "thrown"
              /\ srvCalls'[Len(srvCalls')].error = PleaseRunDirTree
              /\ ~srvCalls'[Len(srvCalls')].handlerRan
              /\ ~srvDirTreeRan'
      ]_vars

\* A call was rejected during the first dir_tree call, which then returned;
\* a later dir_tree call and a later list_files call threw, and the gate is
\* still open
C28_Witness ==
    /\ Len(srvCalls) = 4
    /\ srvCalls[1].name = "dir_tree" /\ srvCalls[1].status = "returned"
    /\ srvCalls[2].name = "search_files" /\ srvCalls[2].error = PleaseRunDirTree
    /\ srvCalls[3].name = "dir_tree" /\ srvCalls[3].doneBefore
    /\ srvCalls[3].error = ToolExecutionFailed
    /\ srvCalls[4].name = "list_files" /\ srvCalls[4].error = ToolExecutionFailed
    /\ srvDirTreeRan

\* The only dir_tree call threw and the gate is closed
C28_WitnessThrownStaysClosed ==
    /\ Len(srvCalls) = 2
    /\ srvCalls[1].name = "dir_tree" /\ srvCalls[1].error = ToolExecutionFailed
    /\ srvCalls[2].name = "list_files" /\ srvCalls[2].error = PleaseRunDirTree
    /\ ~srvCalls[2].doneBefore
    /\ ~srvDirTreeRan

----------------------------------------------------------------------------
(* Claims on the ignore rules in listings of a subdirectory                *)

\* The paths an entry of a list_files or dir_tree output holds
EntryPaths(e) ==
    IF "files" \in DOMAIN e THEN {e.files[n].path : n \in 1..Len(e.files)}
    ELSE IF "tree" \in DOMAIN e THEN TreePaths(e.tree)
    ELSE {}

\* The configured roots of which p is a proper descendant
RootsAbove(p) ==
    { r \in {ctxRoots[i] : i \in 1..Len(ctxRoots)} : StartsWith(p, r \o <<Sep>>) }

\* The ignore file of the configured root r excludes p, by its path from r
ExcludedByRoot(r, p) ==
    Ignores(loadIgnoreMatcher(r, Still, StartOf(Still)).value, Relative(r, p))

\* C29: when list_files or dir_tree is called with a path that is a
\* subdirectory of a configured root, no entry under that subdirectory that
\* the root's ignore file excludes appears in the result.
C29_RootRulesApplyInSubdirectory ==
    (CallDone /\ thTool \in {"list_files", "dir_tree"} /\ thOutcome.kind = "return") =>
        \A n \in 1..Len(thOutcome.value) :
            LET e == thOutcome.value[n] IN
            \A r \in RootsAbove(e.root) :
                \A p \in EntryPaths(e) \ {e.root} : ~ExcludedByRoot(r, p)

\* list_files on the subdirectory d of the root /a, whose ignore file holds
\* the rule f: the file d/f is listed
C29_IgnoredFileListedInSubdirectory ==
    /\ thTool = "list_files"
    /\ thInput.path = Some(WalkPath(<<NameD>>))
    /\ RulesOf(wkEnv) = <<[name |-> NameF, dirOnly |-> FALSE]>>
    /\ CallDone /\ thOutcome.kind = "return"
    /\ \E n \in 1..Len(thOutcome.value) :
          /\ thOutcome.value[n].root = WalkPath(<<NameD>>)
          /\ WalkPath(<<NameD, NameF>>) \in EntryPaths(thOutcome.value[n])

====
